---- MODULE Spec2Model ----
(***************************************************************************)
(* A model of fuse-overlayfs (src/main.c): the layer stack on disk, the    *)
(* in-memory node graph and inode table, the FUSE request handlers that    *)
(* merge and mutate them, the block-encrypted file I/O of the upper layer, *)
(* and the process-ancestry access gate.                                   *)
(***************************************************************************)
EXTENDS Integers, Sequences, FiniteSets, TLC

VARIABLES
  cfg,      \* mount options and environment: upperdir, timeout, static_nlink, rename_whiteout
  disk,     \* disk[l]: the directory tree of layer l ("U" is the upper layer)
  work,     \* the workdir: staging name (a counter value) -> entry
  wdc,      \* get_next_wd_counter's static counter
  nextino,  \* the next inode number the upper file system hands out
  can_mknod,\* the global can_mknod
  nodes,    \* the node graph: node id -> struct ovl_node (id 0 is lo->root)
  inodes,   \* lo->inodes: inode number -> struct ovl_ino
  dummy_lookups, \* dummy_ino.lookups > 0
  kern,     \* the kernel's side: inode number -> lookups it holds and has not forgotten
  handles,  \* open file handles (fi->fh): the set of open descriptors
  reply,    \* the last reply sent to the kernel
  ghost,    \* history the properties speak about (never read by the handlers)
  steps,    \* number of requests served so far
  thr       \* the mutex `lock` and the requests the threads of the server are inside of

vars == <<cfg, disk, work, wdc, nextino, can_mknod, nodes, inodes, dummy_lookups, kern,
          handles, reply, ghost, steps, thr>>

\* the threads of the session loop (one of them only unless the mount is threaded)
Threads == {1, 2}
\* a thread that is inside no handler
Idle == [op |-> "idle", pc |-> "idle", l |-> 0]
\* thr.lock is the thread that holds the mutex, 0 when it is free
NoThr == [lock |-> 0, run |-> [t \in Threads |-> Idle]]
\* A request served in one piece: the handler took the big lock on entry, gave it back on
\* return and touched nothing outside.
Served == steps' = steps + 1 /\ UNCHANGED thr

----------------------------------------------------------------------------
(* Bounds of the model. *)

\* requests served in one run of the namespace specification
MaxSteps == 4
\* lookups the kernel may hold on one inode record
MaxLookups == 2

----------------------------------------------------------------------------
(* Names, paths and layers. *)

Names == {"a", "b"}
RootPath == <<>>
Paths == {<<n>> : n \in Names} \cup {<<n, m>> : n \in Names, m \in Names}
ParentOf(p) == SubSeq(p, 1, Len(p) - 1)
BaseOf(p) == p[Len(p)]
ChildPaths(p) == {q \in Paths : Len(q) = Len(p) + 1 /\ ParentOf(q) = p}
\* has_prefix (name, ".wh."): the names a request may carry are Names and WhNames
WhOf == [n \in Names |-> IF n = "a" THEN ".wh.a" ELSE ".wh.b"]
WhNames == {WhOf[n] : n \in Names}
has_wh_prefix(name) == name \in WhNames
\* get_whiteout_name of a name with the prefix: name + 4
get_whiteout_name == [w \in WhNames |-> CHOOSE n \in Names : WhOf[n] = w]
\* p is the place of a file ".wh.<name>" in the root or in a directory of Paths
IsWhPath(p) ==
  /\ p # RootPath
  /\ has_wh_prefix(BaseOf(p))
  /\ ParentOf(p) \o <<get_whiteout_name[BaseOf(p)]>> \in Paths
\* the path that the file at the place p stands for, and the place of the file for a path
HiddenBy(p) == ParentOf(p) \o <<get_whiteout_name[BaseOf(p)]>>
WhAt(p) == ParentOf(p) \o <<WhOf[BaseOf(p)]>>

Upper == "U"
LowerLayers == <<"L1", "L2">>
AllLayers == {"U", "L1", "L2"}
NoLayer == "none"
\* lo->layers, top to bottom
Layers(s) == IF s.c.upperdir THEN <<Upper>> \o LowerLayers ELSE LowerLayers
get_upper_layer(s) == IF s.c.upperdir THEN Upper ELSE NoLayer
get_lower_layers == LowerLayers[1]
LayerIdx(s, l) == CHOOSE i \in 1..Len(Layers(s)) : Layers(s)[i] = l

Nil == -1
RootId == 0
DummyIno == 0
\* data: the bytes a regular file holds
\* xa: the extended attributes of the file other than the origin mark, name to value
NoEnt == [k |-> "none", ino |-> 0, meta |-> 0, org |-> <<>>, data |-> <<>>, xa |-> <<>>]
Ent(k, ino) == [k |-> k, ino |-> ino, meta |-> 0, org |-> <<>>, data |-> <<>>, xa |-> <<>>]

\* attribute names are the sequences of their dot-terminated parts
XATTR_PREFIX == <<"user", "fuseoverlayfs">>
XATTR_CONTAINERS_PREFIX == <<"user", "containers">>
PRIVILEGED_XATTR_PREFIX == <<"trusted", "overlay">>
ORIGIN_XATTR == <<"user", "fuseoverlayfs", "origin">>

RECURSIVE has_prefix(_, _)
has_prefix(str, pref) ==
  IF pref = <<>> THEN TRUE
  ELSE IF str = <<>> THEN FALSE
  ELSE IF Head(pref) # Head(str) THEN FALSE
  ELSE has_prefix(Tail(str), Tail(pref))

can_access_xattr(name) ==
  ~ has_prefix(name, XATTR_PREFIX) /\ ~ has_prefix(name, PRIVILEGED_XATTR_PREFIX)

\* copy_xattr: the attributes of the source that the destination gets
copy_xattr(xa) == [name \in {x \in DOMAIN xa : can_access_xattr(x)} |-> xa[name]]
EmptyLayer == [ent |-> [p \in Paths |-> NoEnt], whf |-> {}, opq |-> {}]

(* What the data source of a layer answers (l->ds->statat, file_exists,  *)
(* readdir) for a state s of the disk.                                     *)
DirExists(s, l, p) == p = RootPath \/ (p \in Paths /\ s.d[l].ent[p].k = "dir")
\* inode numbers of the files the layers hold when the file system is mounted
LayerNum(l) == CASE l = "U" -> 1 [] l = "L1" -> 2 [] OTHER -> 3
PathNum(p) == IF p = RootPath THEN 0
              ELSE (IF p[1] = "a" THEN 1 ELSE 2) + (IF Len(p) = 1 THEN 0 ELSE IF p[2] = "a" THEN 2 ELSE 4)
InitIno(l, p) == 10 * LayerNum(l) + PathNum(p)
\* file_exists (l, "<parent>/.wh.<name>")
whiteout_file_exists(s, l, p) == p \in Paths /\ DirExists(s, l, ParentOf(p)) /\ p \in s.d[l].whf
\* A layer keeps in whf the paths that have a ".wh." file.  When a request made the file
\* under its own name, ent holds what it is at the place of the file; a file that
\* create_whiteout made is an empty regular file.
WhFile == Ent("reg", 0)
EntAt(s, l, p) ==
  IF p = RootPath THEN Ent("dir", InitIno(l, p))
  ELSE IF p \in Paths /\ DirExists(s, l, ParentOf(p)) THEN s.d[l].ent[p]
  ELSE IF IsWhPath(p) /\ whiteout_file_exists(s, l, HiddenBy(p))
    THEN (IF p \in DOMAIN s.d[l].ent THEN s.d[l].ent[p] ELSE WhFile)
  ELSE NoEnt
statat(s, l, p) == EntAt(s, l, p).k # "none"
is_whiteout_dev(e) == e.k = "chr0"
is_directory_opaque(s, l, p) == DirExists(s, l, p) /\ p \in s.d[l].opq

----------------------------------------------------------------------------
(* The in-memory state the handlers thread through their steps: s.d disk,  *)
(* s.w workdir, s.wdc the staging counter, s.nx the next upper inode       *)
(* number, s.mk can_mknod, s.n the node graph, s.i the inode table.        *)

Cur == [c |-> cfg, d |-> disk, w |-> work, wdc |-> wdc, nx |-> nextino, mk |-> can_mknod,
        n |-> nodes, i |-> inodes, dl |-> dummy_lookups]

Without(f, x) == [y \in DOMAIN f \ {x} |-> f[y]]
With(f, x, v) == [y \in DOMAIN f \cup {x} |-> IF y = x THEN v ELSE f[y]]
SeqWithout(q, x) == SelectSeq(q, LAMBDA y : y # x)
NewId(s) == CHOOSE k \in 0..Cardinality(DOMAIN s.n) : k \notin DOMAIN s.n

\* Then (e, F): F applied to the value of e; the steps of a handler are chained with it.
Then(e, F(_)) == F(e)

\* hash_lookup (p->children, name)
child_lookup(s, p, name) ==
  IF \E c \in s.n[p].children : s.n[c].name = name
    THEN CHOOSE c \in s.n[p].children : s.n[c].name = name
    ELSE Nil

node_free(s, id) ==
  LET n == s.n[id]
      s1 == IF n.parent # Nil
              THEN [s EXCEPT !.n[n.parent].children = @ \ {id},
                             !.n[n.parent].loaded = FALSE,
                             !.n[id].parent = Nil]
              ELSE s
  IN IF (n.ino # Nil /\ n.ino # DummyIno) \/ n.node_lookups > 0
       THEN s1
       ELSE LET s2 == [s1 EXCEPT !.n = [c \in DOMAIN @ |->
                                   IF c \in n.children THEN [@[c] EXCEPT !.parent = Nil] ELSE @[c]]]
                s3 == IF n.do_unlink \/ n.do_rmdir THEN [s2 EXCEPT !.w = Without(@, n.hkey)] ELSE s2
            IN [s3 EXCEPT !.n = Without(@, id)]

RECURSIVE free_all(_, _)
free_all(s, ids) ==
  IF ids = <<>> THEN s
  ELSE free_all(IF Head(ids) \in DOMAIN s.n THEN node_free(s, Head(ids)) ELSE s, Tail(ids))

inode_free(s, key) ==
  LET lst == s.i[key].list
      s1 == [s EXCEPT !.n = [c \in DOMAIN @ |->
                 IF \E k \in 1..Len(lst) : lst[k] = c THEN [@[c] EXCEPT !.ino = Nil] ELSE @[c]],
               !.i = Without(@, key)]
  IN free_all(s1, lst)

drop_node_from_ino(s, id) ==
  LET key == s.n[id].ino
      rec == s.i[key]
  IN IF rec.lookups = 0 THEN inode_free(s, key)
     ELSE IF rec.list = <<id>> THEN s
     ELSE [s EXCEPT !.n[id].ino = Nil, !.i[key].list = SeqWithout(@, id)]

\* register_inode: r is the node that now stands for n (n itself, or its twin).
register_inode(s, id, mode) ==
  LET n == s.n[id]
      key == n.tmp_ino
  IN IF n.ino # Nil THEN [s |-> s, r |-> id]
     ELSE IF key \in DOMAIN s.i
       THEN LET lst == s.i[key].list
                twins == {k \in 1..Len(lst) :
                            s.n[lst[k]].parent = n.parent /\ s.n[lst[k]].name = n.name}
            IN IF twins # {}
                 THEN [s |-> node_free(s, id),
                       r |-> lst[CHOOSE k \in twins : \A j \in twins : k <= j]]
                 ELSE [s |-> [s EXCEPT !.i[key].list = <<id>> \o @,
                                       !.i[key].mode = mode,
                                       !.n[id].ino = key],
                       r |-> id]
       ELSE [s |-> [s EXCEPT !.i = With(@, key, [lookups |-> 0, mode |-> mode, list |-> <<id>>]),
                             !.n[id].ino = key],
             r |-> id]

----------------------------------------------------------------------------
(* Node construction. *)

NameSeq == <<"a", "b">>

\* node->cache after init_node: no block cached (cache.dataLen is Len(data))
NoCache == [offset |-> 0, data |-> <<>>]

NewNode(name, path, parent, layer, dirp) ==
  [name |-> name, path |-> path, parent |-> parent, layer |-> layer, last_layer |-> NoLayer,
   dirp |-> dirp, children |-> {}, whiteout |-> FALSE, hidden |-> FALSE, hkey |-> 0,
   loaded |-> FALSE, ino |-> Nil, tmp_ino |-> 0, node_lookups |-> 0, in_readdir |-> 0,
   do_unlink |-> FALSE, do_rmdir |-> FALSE, cache |-> NoCache]

make_whiteout_node(s, path, name) ==
  LET id == NewId(s)
      node == [NewNode(name, path, Nil, NoLayer, FALSE) EXCEPT !.whiteout = TRUE, !.ino = DummyIno]
  IN [s |-> [s EXCEPT !.n = With(@, id, node)], r |-> id]

\* The layer walk of make_ovl_node (taken only when it is given no inode number).
RECURSIVE MkWalk(_, _, _, _, _, _, _, _)
MkWalk(s, idx, npath, has_origin, acc, wpath, dirp, plast) ==
  IF idx > Len(Layers(s)) THEN acc
  ELSE LET it == Layers(s)[idx]
           e == EntAt(s, it, npath)
           opened == e.k \in {"reg", "dir"}
           acc1 == IF e.k = "none" THEN acc
                   ELSE [tmp_ino |-> IF has_origin THEN e.ino ELSE acc.tmp_ino,
                         mode |-> IF has_origin /\ acc.mode = "" THEN e.k ELSE acc.mode,
                         last_layer |-> it]
           follows == opened /\ e.org # <<>>
       IN IF dirp /\ whiteout_file_exists(s, it, wpath) THEN acc
          ELSE IF plast = it THEN acc1
          ELSE MkWalk(s, idx + 1, IF follows THEN e.org ELSE npath,
                      has_origin /\ follows, acc1, wpath, dirp, plast)

make_ovl_node(s, path, layer, name, ino, dirp, parent) ==
  LET id == NewId(s)
      wpath == IF parent = Nil THEN <<name>> ELSE s.n[parent].path \o <<name>>
      plast == IF parent = Nil THEN NoLayer ELSE s.n[parent].last_layer
  IN Then(IF ino = 0
            THEN MkWalk(s, LayerIdx(s, layer), path, TRUE,
                        [tmp_ino |-> 0, mode |-> "", last_layer |-> NoLayer],
                        wpath, dirp, plast)
            ELSE [tmp_ino |-> ino, mode |-> "", last_layer |-> NoLayer], LAMBDA walk :
       register_inode([s EXCEPT !.n = With(@, id,
                          [NewNode(name, path, parent, layer, dirp) EXCEPT
                             !.tmp_ino = walk.tmp_ino, !.last_layer = walk.last_layer])],
                      id, walk.mode))

insert_node(s, parent, item, replace) ==
  LET prev == s.n[item].parent
  IN Then(IF prev # Nil /\ item \in s.n[prev].children
            THEN [s EXCEPT !.n[prev].children = @ \ {item}] ELSE s, LAMBDA s1 :
     Then(child_lookup(s1, parent, s1.n[item].name), LAMBDA old :
     Then(IF replace /\ old # Nil
            THEN node_free([s1 EXCEPT !.n[parent].children = @ \ {old}], old)
            ELSE s1, LAMBDA s2 :
     Then(child_lookup(s2, parent, s2.n[item].name), LAMBDA cur :
       IF cur # Nil
         THEN [s |-> node_free(s2, item), r |-> cur]
         ELSE [s |-> [s2 EXCEPT !.n[parent].children = @ \cup {item}, !.n[item].parent = parent],
               r |-> item]))))

----------------------------------------------------------------------------
(* load_dir: merge the directory of node id from the layers into its       *)
(* children.                                                               *)

\* The file type of st_mode (st_mode & S_IFMT) in units of 0010000, by kind of entry: S_IFIFO
\* 0010000, S_IFCHR 0020000, S_IFDIR 0040000, S_IFBLK 0060000, S_IFREG 0100000, S_IFLNK
\* 0120000, S_IFSOCK 0140000.  chr0 is the character device 0:0.
st_mode_fmt == [fifo |-> 1, chr |-> 2, chr0 |-> 2, dir |-> 4, blk |-> 6, reg |-> 8, lnk |-> 10,
                sock |-> 12]
\* st.st_mode & S_IFDIR, taken as a bool: the bit 0040000 of the mode
IsDirBit(e) == e.k \in DOMAIN st_mode_fmt /\ (st_mode_fmt[e.k] \div 4) % 2 = 1
\* dirp of load_dir: d_type == DT_DIR, or the bit of the stat mode when d_type is DT_CHR or
\* DT_UNKNOWN (dt_unknown: the layer's readdir reports no types)
dirent_dirp(c, e) == IF c.dt_unknown \/ e.k \in {"chr", "chr0"} THEN IsDirBit(e) ELSE e.k = "dir"

\* One dirent that is an entry called nm of layer it (the body of load_dir's for (;;)).
load_dirent(s, id, it, nm) ==
  LET p == s.n[id].path \o <<nm>>
      e == EntAt(s, it, p)
      child == child_lookup(s, id, nm)
      wh == whiteout_file_exists(s, it, p) \/ is_whiteout_dev(e)
  IN IF child # Nil /\ (~ s.n[child].whiteout \/ it # get_upper_layer(s))
       THEN [s EXCEPT !.n[child].last_layer = it]
       ELSE Then(IF child # Nil
                   THEN node_free([s EXCEPT !.n[child].last_layer = it,
                                            !.n[id].children = @ \ {child}], child)
                   ELSE s, LAMBDA s0 :
            Then(IF wh THEN make_whiteout_node(s0, p, nm)
                 ELSE make_ovl_node(s0, p, it, nm, 0, dirent_dirp(s0.c, e), id), LAMBDA mk :
              insert_node(IF wh THEN mk.s ELSE [mk.s EXCEPT !.n[mk.r].last_layer = it],
                          id, mk.r, FALSE).s))

\* One dirent that is a file called .wh.<nm> of layer it.
load_whdirent(s, id, it, nm) ==
  Then(make_whiteout_node(s, s.n[id].path \o <<nm>>, nm), LAMBDA mk :
    insert_node(mk.s, id, mk.r, FALSE).s)

\* An entry of the hide list (ProfileEntry.data) is "/<dir>/<base>", or "/<dir>/" when slash:
\* dir is the sequence of the names of <dir>, empty for "/".
HideEntry(dir, base, slash) == [dir |-> dir, base |-> base, slash |-> slash]
\* profile_mergelist: the entries of include that no entry of exclude equals
profile_mergelist(include, exclude) == {e \in include : \A x \in exclude : x # e}
\* parse_mergelist: mergewhitelist, then mergelist
parse_mergelist(blacklist, whitelist, nowhitelist) ==
  profile_mergelist(blacklist, profile_mergelist(whitelist, nowhitelist))

\* hide_lowlayer_path: path is the path of the directory being read ("." for the root,
\* RootPath here), name a name read in it.  An entry "/<dir>/" hides when <dir> is a prefix
\* of path (strncmp over the length of <dir>); any other entry when path is dirname(entry)
\* less its first character and name is its base name.  dirname("/<base>") is "/", which
\* less its first character is the empty string and never equals the root's "."; nor
\* does the entry "/" hide anything, its <dir> being compared in full with path.
hide_lowlayer_path(c, path, name) ==
  \E e \in c.mergelist :
    IF e.slash
      THEN /\ Len(path) >= Len(e.dir)
           /\ SubSeq(path, 1, Len(e.dir)) = e.dir
           /\ e.dir # <<>>
      ELSE e.dir # <<>> /\ path = e.dir /\ name = e.base

RECURSIVE load_names(_, _, _, _)
load_names(s, id, it, k) ==
  IF k > Len(NameSeq) THEN s
  ELSE LET nm == NameSeq[k]
           p == s.n[id].path \o <<nm>>
           hide == it = get_lower_layers /\ hide_lowlayer_path(s.c, s.n[id].path, nm)
           hidewh == it = get_lower_layers
                     /\ hide_lowlayer_path(s.c, s.n[id].path, ".wh." \o nm)
       IN Then(IF statat(s, it, p) /\ ~ hide THEN load_dirent(s, id, it, nm) ELSE s, LAMBDA s1 :
          Then(IF whiteout_file_exists(s1, it, p) /\ ~ hidewh THEN load_whdirent(s1, id, it, nm)
               ELSE s1,
               LAMBDA s2 : load_names(s2, id, it, k + 1)))

RECURSIVE load_layers(_, _, _)
load_layers(s, id, idx) ==
  IF idx > Len(Layers(s)) THEN s
  ELSE LET it == Layers(s)[idx]
           n == s.n[id]
           last == n.last_layer = it
           wpath == IF n.parent = Nil THEN <<n.name>> ELSE s.n[n.parent].path \o <<n.name>>
       IN IF whiteout_file_exists(s, it, wpath) THEN s
          ELSE Then(IF DirExists(s, it, n.path) THEN load_names(s, id, it, 1) ELSE s, LAMBDA s1 :
                 IF is_directory_opaque(s1, it, n.path)
                   THEN [s1 EXCEPT !.n[id].last_layer = it]
                   ELSE IF last THEN s1 ELSE load_layers(s1, id, idx + 1))

load_dir(s, id) ==
  Then(load_layers(s, id, 1), LAMBDA s1 :
    IF s.c.timeout THEN [s1 EXCEPT !.n[id].loaded = TRUE] ELSE s1)

reload_dir(s, id) == IF s.n[id].loaded THEN s ELSE load_dir(s, id)

----------------------------------------------------------------------------
(* do_lookup_file. *)

FUSE_ROOT_ID == 1
\* inode_to_node, and lo->root for FUSE_ROOT_ID
inode_to_node(s, ino) == IF ino = FUSE_ROOT_ID THEN RootId ELSE Head(s.i[ino].list)

\* A faulty walk that takes the entry of the first layer that has one, whiteout or not.
RECURSIVE lookup_walk_ignores_whiteout(_, _, _, _, _)
lookup_walk_ignores_whiteout(s, pn, name, idx, node) ==
  IF idx > Len(Layers(s)) THEN [s |-> s, r |-> node]
  ELSE LET it == Layers(s)[idx]
           last == s.n[pn].last_layer = it
           path == s.n[pn].path \o <<name>>
           e == EntAt(s, it, path)
           opaque == IsDirBit(e) /\ is_directory_opaque(s, it, path)
       IN IF e.k = "none" \/ is_whiteout_dev(e)
            THEN IF last THEN [s |-> s, r |-> node]
                 ELSE lookup_walk_ignores_whiteout(s, pn, name, idx + 1, node)
          ELSE IF node # Nil
            THEN Then([s EXCEPT !.n[node].tmp_ino = e.ino, !.n[node].last_layer = it], LAMBDA s1 :
                   IF last THEN [s |-> s1, r |-> node]
                   ELSE lookup_walk_ignores_whiteout(s1, pn, name, idx + 1, node))
          ELSE Then(make_ovl_node(s, path, it, name, 0, IsDirBit(e), pn), LAMBDA mk :
               Then(insert_node(IF opaque THEN [mk.s EXCEPT !.n[mk.r].last_layer = it] ELSE mk.s,
                                pn, mk.r, FALSE).s, LAMBDA s2 :
                 IF last \/ opaque THEN [s |-> s2, r |-> mk.r]
                 ELSE lookup_walk_ignores_whiteout(s2, pn, name, idx + 1, mk.r)))

\* The layer walk of do_lookup_file for a name missing from an unloaded parent.
RECURSIVE lookup_walk(_, _, _, _, _)
lookup_walk(s, pn, name, idx, node) ==
  IF idx > Len(Layers(s)) THEN [s |-> s, r |-> node]
  ELSE LET it == Layers(s)[idx]
           last == s.n[pn].last_layer = it
           path == s.n[pn].path \o <<name>>
           e == EntAt(s, it, path)
           whf == whiteout_file_exists(s, it, path)
           opaque == IsDirBit(e) /\ is_directory_opaque(s, it, path)
       IN IF e.k = "none" /\ ~ (node = Nil /\ whf)
            THEN IF last THEN [s |-> s, r |-> node]
                 ELSE lookup_walk(s, pn, name, idx + 1, node)
          ELSE IF e.k # "none" /\ node # Nil
            THEN Then([s EXCEPT !.n[node].tmp_ino = e.ino, !.n[node].last_layer = it], LAMBDA s1 :
                   IF last THEN [s |-> s1, r |-> node]
                   ELSE lookup_walk(s1, pn, name, idx + 1, node))
          ELSE Then(IF whf \/ is_whiteout_dev(e)
                      THEN make_whiteout_node(s, path, name)
                      ELSE make_ovl_node(s, path, it, name, 0, IsDirBit(e), pn), LAMBDA mk :
               Then(insert_node(IF opaque THEN [mk.s EXCEPT !.n[mk.r].last_layer = it] ELSE mk.s,
                                pn, mk.r, FALSE).s, LAMBDA s2 :
                 IF last \/ opaque THEN [s |-> s2, r |-> mk.r]
                 ELSE lookup_walk(s2, pn, name, idx + 1, mk.r)))

\* do_lookup_file (parent, name): r is the node found (Nil for NULL), err the errno set.
do_lookup_file(s, parent, name) ==
  LET pn == inode_to_node(s, parent)
      node == child_lookup(s, pn, name)
  IN IF has_wh_prefix(name) THEN [s |-> s, r |-> Nil, err |-> "EINVAL"]
     ELSE IF node = Nil /\ ~ s.n[pn].loaded
       THEN Then(lookup_walk(s, pn, name, 1, Nil), LAMBDA w :
              [s |-> w.s, r |-> w.r, err |-> "ENOENT"])
       ELSE [s |-> s, r |-> node, err |-> "ENOENT"]

----------------------------------------------------------------------------
(* Mounting: main builds the layers and loads the root directory.          *)

\* A layer holding, for each top-level name, an entry of kind top[name]; regular files at
\* the paths kids below its directories; .wh.<name> files at whf; opaque marks at opq.
LayerImage(l, top, kids, whf, opq) ==
  [ent |-> [p \in Paths |->
              IF Len(p) = 1
                THEN (IF top[p[1]] = "none" THEN NoEnt ELSE Ent(top[p[1]], InitIno(l, p)))
                ELSE IF p \in kids /\ top[p[1]] = "dir" THEN Ent("reg", InitIno(l, p))
                ELSE NoEnt],
   whf |-> {p \in whf : Len(p) = 1 \/ top[p[1]] = "dir"},
   opq |-> {p \in opq : p = RootPath \/ (Len(p) = 1 /\ top[p[1]] = "dir")}]

FirstUpperIno == 100

\* lo.root = load_dir (&lo, NULL, lo.layers, ".", ""); lo.root->ino->lookups = 2
MountState(c, d) ==
  LET s0 == [c |-> c, d |-> d, w |-> << >>, wdc |-> 1, nx |-> FirstUpperIno, mk |-> TRUE,
             n |-> << >>, i |-> << >>, dl |-> FALSE]
  IN Then(make_ovl_node(s0, RootPath, Layers(s0)[1], "", 0, TRUE, Nil), LAMBDA mk :
     Then(load_dir(mk.s, mk.r), LAMBDA s1 :
       [s1 EXCEPT !.i[s1.n[RootId].ino].lookups = 2]))

\* A reply: for an entry reply ino is e.ino (0: no such entry) and node the node behind it;
\* for a directory listing names is the set of names listed.  inval: the inodes whose cache
\* the kernel was told to drop; fds: the descriptors the handler opened and has not closed
\* at its return, the one it hands to the kernel as fi->fh apart.
NoReply == [op |-> "none", err |-> "", parent |-> 0, name |-> "", ino |-> 0, node |-> Nil, names |-> {},
            off |-> 0, data |-> <<>>, inval |-> {}, fds |-> 0]
Replied(op, err, parent, name, ino, node, names) ==
  [NoReply EXCEPT !.op = op, !.err = err, !.parent = parent, !.name = name, !.ino = ino,
                  !.node = node, !.names = names]

\* if (p && p->in_readdir) fuse_lowlevel_notify_inval_inode (lo->se, ino, 0, 0), for each
\* ino of dirs: the inodes the kernel is told to drop from its cache
notify_inval(s, dirs) ==
  {d \in dirs : (d = FUSE_ROOT_ID \/ d \in DOMAIN s.i) /\ s.n[inode_to_node(s, d)].in_readdir > 0}

Commit(s) ==
  /\ disk' = s.d
  /\ work' = s.w
  /\ wdc' = s.wdc
  /\ nextino' = s.nx
  /\ can_mknod' = s.mk
  /\ nodes' = s.n
  /\ inodes' = s.i
  /\ dummy_lookups' = s.dl

Mounted(d) ==
  \E s \in {MountState(cfg, d)} :
     /\ disk = s.d
     /\ work = s.w
     /\ wdc = s.wdc
     /\ nextino = s.nx
     /\ can_mknod = s.mk
     /\ nodes = s.n
     /\ inodes = s.i
     /\ dummy_lookups = s.dl
     /\ kern = << >>
     /\ handles = {}
     /\ reply = NoReply
     /\ steps = 0
     /\ thr = NoThr

\* The inode numbers the kernel may name in a request: the root and every record it
\* holds a lookup on.
KnownInos == {FUSE_ROOT_ID} \cup {k \in DOMAIN kern : k \in DOMAIN inodes}
KnownDirs == {k \in KnownInos : LET n == nodes[inode_to_node(Cur, k)] IN n.dirp /\ ~ n.hidden}

----------------------------------------------------------------------------
(* The access gate: isInBox walks /proc/<pid>/stat from the caller upwards. *)
(* cfg.procs[pid] is the process table entry the kernel would format as    *)
(* "<pid> (<comm>) S <ppid> ...": comm is a sequence of characters.        *)

IdlePid == 0
InitPid == 1
KthreaddPid == 2
\* the token standing for the decimal digits of the parent pid in the stat line
PpidToken == "#ppid"

TrustedPrefixes ==
  { <<"f","i","r","e","j","a","i","l">>,
    <<"E","n","D","e","s","k","T","o","p">>,
    <<"u","e","b","m">>,
    <<"S","t","r","e","a","m","T","r","a","n">>,
    <<"B","g","I","O","T","h","r","~","P","o","o">>,
    <<"T","a","s","k","C","o","n","~","l","l","e">>,
    <<"a","p","p","o","r","t">>,
    <<"B","a","c","k","g","r","o","~","P","o","o">> }

\* strncmp (procName, prefix, strlen (prefix)) == 0
strncmp_eq(name, prefix) == Len(name) >= Len(prefix) /\ SubSeq(name, 1, Len(prefix)) = prefix

Digits == {"0", "1", "2", "3", "4", "5", "6", "7", "8", "9"}
DigitVal(c) == CHOOSE v \in 0..9 : <<"0","1","2","3","4","5","6","7","8","9">>[v + 1] = c

RECURSIVE SkipSpaces(_)
SkipSpaces(l) == IF l # <<>> /\ Head(l) = " " THEN SkipSpaces(Tail(l)) ELSE l
RECURSIVE WordLen(_)
WordLen(l) == IF l = <<>> \/ Head(l) = " " THEN 0 ELSE 1 + WordLen(Tail(l))
RECURSIVE ScanInt(_, _)
ScanInt(l, acc) == IF l # <<>> /\ Head(l) \in Digits THEN ScanInt(Tail(l), 10 * acc + DigitVal(Head(l))) ELSE acc

\* sscanf (buf, "%*d %*c%s %*c %d %*s", procName, &fpid) followed by the removal of
\* procName's last character; fpid keeps its old value when %d matches nothing.
ParseStat(p, fpid) ==
  Then(SkipSpaces(p.comm \o <<")", " ", "S", " ", PpidToken>>), LAMBDA line :
  Then(WordLen(line), LAMBDA w :
  Then(SkipSpaces(SubSeq(line, w + 1, Len(line))), LAMBDA afterWord :
  Then(IF afterWord = <<>> THEN <<>> ELSE SkipSpaces(Tail(afterWord)), LAMBDA afterChar :
    [procName |-> SubSeq(line, 1, w - 1),
     fpid |-> IF afterChar = <<>> THEN fpid
              ELSE IF Head(afterChar) = PpidToken THEN p.ppid
              ELSE IF Head(afterChar) \in Digits THEN ScanInt(afterChar, 0)
              ELSE fpid]))))

\* The while (1) of isInBox; "hang" when the loop comes back to a state it has been in.
RECURSIVE isInBoxLoop(_, _, _, _)
isInBoxLoop(c, pid, fpid, seen) ==
  IF pid = IdlePid THEN "yes"
  ELSE IF pid = InitPid THEN "no"
  ELSE IF pid = KthreaddPid THEN "yes"
  ELSE IF pid = c.manage THEN "yes"
  ELSE IF pid \notin DOMAIN c.procs THEN "no"
  ELSE Then(ParseStat(c.procs[pid], fpid), LAMBDA st :
         IF \E t \in TrustedPrefixes : strncmp_eq(st.procName, t) THEN "yes"
         ELSE IF <<st.fpid, st.fpid>> \in seen THEN "hang"
         ELSE isInBoxLoop(c, st.fpid, st.fpid, seen \cup {<<pid, fpid>>}))

isInBox(c, accessPid) == isInBoxLoop(c, accessPid, 0, {})

checkAuthority(c, pid, ino) == IF ino = FUSE_ROOT_ID THEN "yes" ELSE isInBox(c, pid)

----------------------------------------------------------------------------
(* Request handlers: what every handler starts with.                       *)

Callers == cfg.callers
Serving == steps < cfg.budget /\ reply.err \notin {"HANG", "DEAD"}

KernRef(k, ino) == IF ino \in DOMAIN k THEN k[ino] ELSE 0
KernAdd(k, ino) == With(k, ino, KernRef(k, ino) + 1)
KernSub(k, ino, n) == IF KernRef(k, ino) <= n THEN Without(k, ino) ELSE With(k, ino, k[ino] - n)

\* The gate refused (or never came back): nothing but the reply changes.
\* The longest name a request may make. sfs.f_namemax is what the file system below the
\* first layer reports (cfg.f_namemax); the result is kept in a short and compared with
\* strlen (name), a size_t.
WHITEOUT_MAX_LEN == 4
DefaultNameMax == 255
do_statfs(c) ==
  IF c.statfs_ok THEN [ret |-> 0, f_namemax |-> c.f_namemax - WHITEOUT_MAX_LEN]
  ELSE [ret |-> -1, f_namemax |-> 0]
AsShort(x) == ((x + 32768) % 65536) - 32768
\* the limit of the file system below, with nothing taken off
get_fs_namemax_unreduced(c) == AsShort(c.f_namemax)
get_fs_namemax(c) ==
  LET sfs == do_statfs(c)
  IN AsShort(IF sfs.ret < 0 THEN DefaultNameMax - WHITEOUT_MAX_LEN ELSE sfs.f_namemax)
\* strlen (name) > get_fs_namemax (lo): a negative short is a huge size_t
name_too_long(c, name) == get_fs_namemax(c) >= 0 /\ Len(name) > get_fs_namemax(c)

NameTooLong(op, parent, name) ==
  /\ reply' = Replied(op, "ENAMETOOLONG", parent, name, 0, Nil, {})
  /\ Served
  /\ UNCHANGED <<cfg, disk, work, wdc, nextino, can_mknod, nodes, inodes, dummy_lookups,
                 kern, handles, ghost>>

Refuse(op, verdict, parent, name) ==
  /\ reply' = Replied(op, IF verdict = "no" THEN "ENOENT" ELSE "HANG", parent, name, 0, Nil, {})
  /\ Served
  /\ UNCHANGED <<cfg, disk, work, wdc, nextino, can_mknod, nodes, inodes, dummy_lookups,
                 kern, handles, ghost>>

\* rpl_stat succeeds when the file behind the node is where the node says it is
node_stat_ok(s, id) ==
  LET n == s.n[id]
  IN IF n.hidden THEN n.hkey \in DOMAIN s.w
     ELSE n.layer # NoLayer /\ statat(s, n.layer, n.path)

\* node->ino->lookups++
ino_lookups_inc(s, id) ==
  LET key == s.n[id].ino
  IN IF key = DummyIno THEN [s EXCEPT !.dl = TRUE]
     ELSE [s EXCEPT !.i[key].lookups = @ + 1]

----------------------------------------------------------------------------
(* ovl_lookup *)

\* What the parent knew before the request: its node, whether its children were loaded,
\* whether it had a child of that name, and the layer its walk stops at.
PreLookup(parent, name) ==
  LET pn == inode_to_node(Cur, parent)
  IN [pnode |-> pn, path |-> nodes[pn].path, loaded |-> nodes[pn].loaded,
      cached |-> child_lookup(Cur, pn, name) # Nil, last_layer |-> nodes[pn].last_layer]
NoPre == [pnode |-> Nil, path |-> <<>>, loaded |-> FALSE, cached |-> FALSE, last_layer |-> NoLayer]

lookup_result(s, parent, name) ==
  Then(do_lookup_file(s, parent, name), LAMBDA l :
    IF l.r = Nil \/ l.s.n[l.r].whiteout
      THEN [s |-> l.s, err |-> "", ino |-> 0, node |-> Nil]
      ELSE Then(IF ~ s.c.static_nlink /\ l.s.n[l.r].dirp THEN reload_dir(l.s, l.r) ELSE l.s,
                LAMBDA s1 :
             IF ~ node_stat_ok(s1, l.r)
               THEN [s |-> s1, err |-> "ENOENT", ino |-> 0, node |-> Nil]
               ELSE [s |-> ino_lookups_inc(s1, l.r), err |-> "", ino |-> s1.n[l.r].ino,
                     node |-> l.r]))

ovl_lookup(pid, parent, name) ==
  /\ Serving
  /\ \E verdict \in {checkAuthority(cfg, pid, parent)} :
        IF verdict # "yes" THEN Refuse("lookup", verdict, parent, name)
        ELSE \E res \in {lookup_result(Cur, parent, name)} :
             /\ KernRef(kern, res.ino) < MaxLookups
             /\ Commit(res.s)
             /\ kern' = IF res.ino # 0 THEN KernAdd(kern, res.ino) ELSE kern
             /\ reply' = Replied("lookup", res.err, parent, name, res.ino, res.node, {})
             /\ Served
             /\ ghost' = [ghost EXCEPT !.pre = PreLookup(parent, name)]
             /\ UNCHANGED <<cfg, handles>>

----------------------------------------------------------------------------
(* ovl_forget *)

\* no rename on record
NoMove == [from |-> <<>>, to |-> <<>>, flags |-> {}, node |-> Nil, ino |-> 0]

do_forget(s, ino, nlookup) ==
  IF ino = FUSE_ROOT_ID \/ ino \notin DOMAIN s.i THEN s
  ELSE IF s.i[ino].lookups - nlookup <= 0 THEN inode_free(s, ino)
  ELSE [s EXCEPT !.i[ino].lookups = @ - nlookup]

ovl_forget(pid, ino, nlookup) ==
  /\ Serving
  /\ nlookup \in 1..KernRef(kern, ino)
  /\ \A h \in handles : h.ino # ino
  /\ \E verdict \in {checkAuthority(cfg, pid, ino)} :
        IF verdict # "yes" THEN Refuse("forget", verdict, ino, "")
        ELSE /\ Commit(do_forget(Cur, ino, nlookup))
             /\ kern' = KernSub(kern, ino, nlookup)
             /\ reply' = Replied("forget", "", ino, "", 0, Nil, {})
             /\ Served
             \* the history of a rename ends when the kernel lets go of the moved inode
             /\ ghost' = IF ino = ghost.moved.ino THEN [ghost EXCEPT !.moved = NoMove] ELSE ghost
             /\ UNCHANGED <<cfg, handles>>

----------------------------------------------------------------------------
(* ovl_opendir, ovl_readdir, ovl_releasedir *)

\* open directory handles at any time
MaxHandles == 1

SetToSeq(S) ==
  LET RECURSIVE go(_)
      go(T) == IF T = {} THEN <<>>
               ELSE LET x == CHOOSE y \in T : \A z \in T : y <= z IN <<x>> \o go(T \ {x})
  IN go(S)

\* An open handle (fi->fh): a struct ovl_dirp for a directory, a file descriptor for a file.
\* A descriptor stands for the file it was opened on: the inode dino of layer `layer`
\* ("U" also for the workdir, which shares the upper file system).
DirHandle(ino, node) ==
  [kind |-> "dir", ino |-> ino, parent |-> node, tbl |-> <<>>, layer |-> NoLayer, dino |-> 0,
   rw |-> FALSE]
FileHandle(ino, fd, rw) ==
  [kind |-> "file", ino |-> ino, parent |-> Nil, tbl |-> <<>>, layer |-> fd.layer, dino |-> fd.dino,
   rw |-> rw]

ovl_opendir(pid, ino) ==
  /\ Serving
  /\ Cardinality({h \in handles : h.kind = "dir"}) < MaxHandles
  /\ LET verdict == checkAuthority(cfg, pid, ino)
         node == inode_to_node(Cur, ino)
     IN IF verdict # "yes" THEN Refuse("opendir", verdict, ino, "")
        ELSE IF ~ nodes[node].dirp
          THEN /\ reply' = Replied("opendir", "ENOTDIR", ino, "", 0, Nil, {})
               /\ Served
               /\ UNCHANGED <<cfg, disk, work, wdc, nextino, can_mknod, nodes, inodes,
                              dummy_lookups, kern, handles, ghost>>
          ELSE /\ nodes' = [nodes EXCEPT ![node].in_readdir = @ + 1]
               /\ handles' = handles \cup {DirHandle(ino, node)}
               /\ reply' = Replied("opendir", "", ino, "", 0, Nil, {})
               /\ Served
               /\ UNCHANGED <<cfg, disk, work, wdc, nextino, can_mknod, inodes,
                              dummy_lookups, kern, ghost>>

RECURSIVE tbl_take(_, _)
tbl_take(s, ids) ==
  IF ids = <<>> THEN s
  ELSE tbl_take([ino_lookups_inc(s, Head(ids)) EXCEPT !.n[Head(ids)].node_lookups = @ + 1], Tail(ids))

\* reload_tbl: the directory is (re)loaded and its children are pinned in d->tbl
reload_tbl(s, node) ==
  Then(reload_dir(s, node), LAMBDA s1 :
  Then(SetToSeq(s1.n[node].children), LAMBDA kids :
    [s |-> tbl_take(s1, kids), tbl |-> <<node, s1.n[node].parent>> \o kids]))

listed_names(s, tbl) ==
  LET shown(k) == tbl[k] # Nil /\ ~ s.n[tbl[k]].whiteout /\ ~ s.n[tbl[k]].hidden
  IN (IF shown(1) THEN {"."} ELSE {})
     \cup (IF shown(2) THEN {".."} ELSE {})
     \cup {s.n[tbl[k]].name : k \in {j \in 3..Len(tbl) : shown(j) /\ s.n[tbl[j]].parent = tbl[1]}}

\* What the directory's node said before the request.
PreReaddir(node) ==
  [pnode |-> node, path |-> nodes[node].path, loaded |-> nodes[node].loaded,
   cached |-> nodes[node].children # {}, last_layer |-> nodes[node].last_layer]

ovl_readdir(pid, h) ==
  /\ Serving
  /\ h \in handles /\ h.kind = "dir" /\ h.parent \in DOMAIN nodes
  /\ \E verdict \in {checkAuthority(cfg, pid, h.ino)} :
        IF verdict # "yes" THEN Refuse("readdir", verdict, h.ino, "")
        ELSE \E t \in {reload_tbl(Cur, h.parent)} :
             /\ Commit(t.s)
             /\ handles' = (handles \ {h}) \cup {[h EXCEPT !.tbl = t.tbl]}
             /\ reply' = Replied("readdir", "", h.ino, "", 0, h.parent, listed_names(t.s, t.tbl))
             /\ Served
             /\ ghost' = [ghost EXCEPT !.pre = PreReaddir(h.parent)]
             /\ UNCHANGED <<cfg, kern>>

RECURSIVE tbl_release(_, _)
tbl_release(s, ids) ==
  IF ids = <<>> THEN s
  ELSE LET id == Head(ids)
           s1 == [s EXCEPT !.n[id].node_lookups = @ - 1]
           key == s1.n[id].ino
           forgot == key # Nil /\ key # DummyIno /\ key \in DOMAIN s1.i
           s2 == IF forgot THEN do_forget(s1, key, 1)
                 ELSE IF s1.n[id].node_lookups = 0 THEN node_free(s1, id) ELSE s1
       IN tbl_release(s2, Tail(ids))

ovl_releasedir(pid, h) ==
  /\ Serving
  /\ h \in handles /\ h.kind = "dir"
  /\ \E verdict \in {checkAuthority(cfg, pid, h.ino)} :
        IF verdict # "yes" THEN Refuse("releasedir", verdict, h.ino, "")
        ELSE \E s1 \in {tbl_release(Cur, SubSeq(h.tbl, 3, Len(h.tbl)))} :
             /\ Commit([s1 EXCEPT !.n[inode_to_node(s1, h.ino)].in_readdir = @ - 1])
             /\ handles' = handles \ {h}
             /\ reply' = Replied("releasedir", "", h.ino, "", 0, Nil, {})
             /\ Served
             /\ UNCHANGED <<cfg, kern, ghost>>

----------------------------------------------------------------------------
(* The merge specification: any stack of layers is mounted and the kernel  *)
(* looks names up and lists directories.                                   *)

\* budget of requests of the merge specification
MergeSteps == 3

NoProcs == [procs |-> << >>, manage |-> KthreaddPid, callers |-> {KthreaddPid},
            disable_xattrs |-> FALSE, f_namemax |-> 255, statfs_ok |-> TRUE,
            isBoxRunning |-> FALSE, hostns |-> "host", pidns |-> << >>, mountdir |-> <<"mnt">>,
            euid |-> 0, squash_to_uid |-> -1, squash_to_gid |-> -1, squash_to_root |-> FALSE,
            uid_mappings |-> << >>, gid_mappings |-> << >>, overflow_uid |-> 0,
            overflow_gid |-> 0, mergelist |-> {}, decode_bad |-> {}, threaded |-> FALSE,
            copyup_fault |-> "none", ndebug |-> FALSE, dt_unknown |-> FALSE]
Options(upperdir, timeout, static_nlink, budget) ==
  [upperdir |-> upperdir, timeout |-> timeout, static_nlink |-> static_nlink,
   rename_whiteout |-> TRUE, mknod_ok |-> TRUE, budget |-> budget] @@ NoProcs

\* What a layer may hold at the name "a": nothing, a file, a whiteout device, a .wh.a
\* file, or a directory (opaque or not) whose child "a" is a file, a whiteout or absent.
MergeShapes ==
  {[top |-> k, kid |-> "none", whf |-> {}, opq |-> {}] : k \in {"none", "reg", "chr0"}}
  \cup {[top |-> "none", kid |-> "none", whf |-> {<<"a">>}, opq |-> {}]}
  \cup {[top |-> "dir", kid |-> k, whf |-> w, opq |-> o] :
          k \in {"none", "reg", "chr0"}, w \in {{}, {<<"a", "a">>}}, o \in {{}, {<<"a">>}}}

ShapeLayer(l, sh) ==
  LET img == LayerImage(l, [n \in Names |-> IF n = "a" THEN sh.top ELSE "none"],
                        IF sh.kid = "reg" THEN {<<"a", "a">>} ELSE {}, sh.whf, sh.opq)
  IN IF sh.kid = "chr0"
       THEN [img EXCEPT !.ent[<<"a", "a">>] = Ent("chr0", InitIno(l, <<"a", "a">>))]
       ELSE img

GhostInit == [pre |-> NoPre, removed |-> {}, moved |-> NoMove, disk0 |-> disk, want |-> <<>>,
              resized |-> FALSE]

InitMerge ==
  /\ cfg \in {Options(TRUE, t, sn, MergeSteps) : t \in BOOLEAN, sn \in BOOLEAN}
  /\ \E su \in MergeShapes, s1 \in MergeShapes, s2 \in MergeShapes :
       Mounted([l \in AllLayers |-> ShapeLayer(l, IF l = "U" THEN su ELSE IF l = "L1" THEN s1 ELSE s2)])
  /\ ghost = GhostInit

NextMerge ==
  \/ \E pid \in Callers, parent \in KnownDirs, name \in Names : ovl_lookup(pid, parent, name)
  \/ \E pid \in Callers, ino \in KnownInos : ovl_opendir(pid, ino)
  \/ \E pid \in Callers, h \in handles : ovl_readdir(pid, h)
  \/ \E pid \in Callers, h \in handles : ovl_releasedir(pid, h)
  \/ \E pid \in Callers, ino \in DOMAIN kern, n \in 1..MaxLookups : ovl_forget(pid, ino, n)

SpecMerge == InitMerge /\ [][NextMerge]_vars

----------------------------------------------------------------------------
(* What the layers on disk say, stated without the node graph.             *)

holds_whiteout(s, l, p) == whiteout_file_exists(s, l, p) \/ is_whiteout_dev(EntAt(s, l, p))
holds_entry(s, l, p) == EntAt(s, l, p).k \notin {"none", "chr0"}
\* the position of layer l in the stack; a layer that is not set bounds nothing
Depth(s, l) == IF l = NoLayer THEN Len(Layers(s)) ELSE LayerIdx(s, l)

MergeRange(s, p, last) ==
  LET opq == {i \in 1..Len(Layers(s)) : is_directory_opaque(s, Layers(s)[i], p)}
      stop == IF opq = {} THEN Len(Layers(s)) ELSE CHOOSE i \in opq : \A j \in opq : i <= j
  IN 1..(IF stop < Depth(s, last) THEN stop ELSE Depth(s, last))

MergedNames(s, p, last) ==
  {nm \in Names : \E i \in MergeRange(s, p, last) :
      /\ holds_entry(s, Layers(s)[i], p \o <<nm>>)
      /\ \A j \in 1..i : ~ holds_whiteout(s, Layers(s)[j], p \o <<nm>>)}

\* C9: readdir(D) returns "." and ".." plus exactly the names that have a non-whiteout
\* entry in some layer L of D's merge range such that no layer above L holds a whiteout
\* for the name.
C9_ReaddirListsMerged ==
  (reply.op = "readdir" /\ reply.err = "") =>
     reply.names = {".", ".."} \cup MergedNames(Cur, ghost.pre.path, ghost.pre.last_layer)


----------------------------------------------------------------------------
(* The system calls the mutating handlers make on the upper layer and the  *)
(* workdir. A result is [s |-> state, err |-> "" or the errno].            *)

SubPaths(p) == {q \in Paths : Len(q) > Len(p) /\ SubSeq(q, 1, Len(p)) = p}
Rebase(q, from, to) == to \o SubSeq(q, Len(from) + 1, Len(q))
Ok(s) == [s |-> s, err |-> ""]
Fail(s, e) == [s |-> s, err |-> e]

\* the directory at p of layer l holds a file of any kind (".wh." files included)
DirHasFiles(s, l, p) ==
  \E q \in ChildPaths(p) : s.d[l].ent[q].k # "none" \/ q \in s.d[l].whf

\* lay without what ent kept of the ".wh." files that are gone
Tidy(lay) ==
  [lay EXCEPT !.ent = [q \in {k \in DOMAIN @ : k \in Paths \/ HiddenBy(k) \in lay.whf} |-> @[q]]]
\* what lay holds at p, a path of Paths or the place of a ".wh." file there is
LayEnt(lay, p) == IF p \in DOMAIN lay.ent THEN lay.ent[p] ELSE WhFile
\* lay with the entry e at p, and lay without an entry at p
PutEnt(lay, p, e) ==
  IF IsWhPath(p) THEN [lay EXCEPT !.ent = With(@, p, e), !.whf = @ \cup {HiddenBy(p)}]
  ELSE [lay EXCEPT !.ent[p] = e]
DelEnt(lay, p) ==
  IF IsWhPath(p) THEN Tidy([lay EXCEPT !.whf = @ \ {HiddenBy(p)}])
  ELSE [lay EXCEPT !.ent[p] = NoEnt]

\* what is left of layer l when the entry at p and all that lies below it are gone
TreeRemoved(lay, p) ==
  IF IsWhPath(p) THEN [DelEnt(lay, p) EXCEPT !.opq = @ \ {p}]
  ELSE Tidy([ent |-> [q \in DOMAIN lay.ent |->
                       IF q = p \/ q \in SubPaths(p) THEN NoEnt ELSE lay.ent[q]],
             whf |-> lay.whf \ SubPaths(p),
             opq |-> lay.opq \ ({p} \cup SubPaths(p))])

\* layer l with the tree at `from` also standing at `to` (what does not fit below `to` is cut)
TreeCopied(lay, src, from, to) ==
  LET back(q) == Rebase(q, to, from)
      \* the ".wh." files below `to` are those below `from`, each with what ent kept of it
      kept == {q \in SubPaths(to) : back(q) \in src.whf /\ WhAt(back(q)) \in DOMAIN src.ent}
      below == [ent |-> [q \in DOMAIN lay.ent |->
                           IF q \in Paths /\ q = to THEN src.ent[from]
                           ELSE IF q \in SubPaths(to)
                             THEN (IF back(q) \in Paths THEN src.ent[back(q)] ELSE NoEnt)
                           ELSE lay.ent[q]],
                whf |-> (lay.whf \ SubPaths(to)) \cup {q \in SubPaths(to) : back(q) \in src.whf},
                opq |-> (lay.opq \ ({to} \cup SubPaths(to)))
                          \cup {q \in {to} \cup SubPaths(to) : back(q) \in src.opq}]
      tidy == Tidy(below)
      whs == [tidy EXCEPT !.ent = [q \in DOMAIN @ \cup {WhAt(k) : k \in kept} |->
                                     IF \E k \in kept : WhAt(k) = q
                                       THEN src.ent[WhAt(back(HiddenBy(q)))] ELSE @[q]]]
  IN IF IsWhPath(to) \/ IsWhPath(from)
       THEN [PutEnt(TreeRemoved(lay, to), to, LayEnt(src, from))
               EXCEPT !.opq = IF from \in src.opq THEN @ \cup {to} ELSE @]
     ELSE whs

\* unlinkat (upper, p, 0)
sys_unlink(s, p) ==
  LET e == EntAt(s, Upper, p)
  IN IF e.k = "none" THEN Fail(s, "ENOENT")
     ELSE IF e.k = "dir" THEN Fail(s, "EISDIR")
     ELSE Ok([s EXCEPT !.d[Upper] = DelEnt(@, p)])

\* unlinkat (upper, "<parent>/.wh.<name>", 0)
sys_unlink_whfile(s, p) ==
  IF whiteout_file_exists(s, Upper, p) THEN Ok([s EXCEPT !.d[Upper] = DelEnt(@, WhAt(p))])
  ELSE Fail(s, "ENOENT")

\* renameat2 (upper, from, upper, to, flags) with flags a subset of
\* {"NOREPLACE", "EXCHANGE", "WHITEOUT"}
direct_renameat2(s, from, to, flags) ==
  LET src == EntAt(s, Upper, from)
      dst == EntAt(s, Upper, to)
      lay == s.d[Upper]
  IN IF "EXCHANGE" \in flags /\ flags # {"EXCHANGE"} THEN Fail(s, "EINVAL")
     ELSE IF "WHITEOUT" \in flags /\ ~ s.c.rename_whiteout THEN Fail(s, "EINVAL")
     ELSE IF src.k = "none" \/ ~ DirExists(s, Upper, ParentOf(to)) THEN Fail(s, "ENOENT")
     ELSE IF "EXCHANGE" \in flags
       THEN IF dst.k = "none" THEN Fail(s, "ENOENT")
            ELSE Ok([s EXCEPT !.d[Upper] =
                        TreeCopied(TreeCopied(lay, lay, from, to), lay, to, from)])
     ELSE IF "NOREPLACE" \in flags /\ dst.k # "none" THEN Fail(s, "EEXIST")
     ELSE IF src.k = "dir" /\ dst.k \notin {"none", "dir"} THEN Fail(s, "ENOTDIR")
     ELSE IF src.k # "dir" /\ dst.k = "dir" THEN Fail(s, "EISDIR")
     ELSE IF dst.k = "dir" /\ DirHasFiles(s, Upper, to) THEN Fail(s, "ENOTEMPTY")
     ELSE Then(TreeRemoved(TreeCopied(lay, lay, from, to), from), LAMBDA moved :
            Ok([s EXCEPT !.d[Upper] =
                  IF "WHITEOUT" \in flags
                    THEN PutEnt(moved, from, Ent("chr0", 0))
                    ELSE moved]))

\* get_next_wd_counter
get_next_wd_counter(s) == [s |-> [s EXCEPT !.wdc = @ + 1], r |-> s.wdc]

\* renameat (workdir, key, upper, p): the staged entry takes the place at p
rename_from_workdir(s, key, p) ==
  LET src == s.w[key]
      dst == EntAt(s, Upper, p)
  IN IF ~ DirExists(s, Upper, ParentOf(p)) THEN Fail(s, "ENOENT")
     ELSE IF src.e.k = "dir" /\ dst.k \notin {"none", "dir"} THEN Fail(s, "ENOTDIR")
     ELSE IF src.e.k # "dir" /\ dst.k = "dir" THEN Fail(s, "EISDIR")
     ELSE IF dst.k = "dir" /\ DirHasFiles(s, Upper, p) THEN Fail(s, "ENOTEMPTY")
     ELSE Ok([s EXCEPT !.w = Without(@, key),
                       !.d[Upper] = [PutEnt(TreeRemoved(@, p), p, src.e) EXCEPT
                                       !.opq = IF src.opq THEN @ \cup {p} ELSE @]])

\* renameat (upper, p, workdir, key): the entry at p is staged away with all below it
rename_to_workdir(s, p, key) ==
  LET e == EntAt(s, Upper, p)
  IN IF e.k = "none" THEN Fail(s, "ENOENT")
     ELSE Ok([s EXCEPT !.w = With(@, key, [e |-> e, opq |-> p \in s.d[Upper].opq]),
                       !.d[Upper] = TreeRemoved(@, p)])


\* renameat2 (upper, p, workdir, key, RENAME_WHITEOUT)
rename_to_workdir_whiteout(s, p, key) ==
  IF ~ s.c.rename_whiteout THEN Fail(s, "EINVAL")
  ELSE Then(rename_to_workdir(s, p, key), LAMBDA r :
         IF r.err # "" THEN r ELSE Ok([r.s EXCEPT !.d[Upper] = PutEnt(@, p, Ent("chr0", 0))]))

\* a file or directory made in the workdir under the name key
staged(s, key, e, opq) ==
  [s EXCEPT !.w = With(@, key, [e |-> [e EXCEPT !.ino = s.nx], opq |-> opq]), !.nx = @ + 1]

unstaged(s, key) == [s EXCEPT !.w = Without(@, key)]

----------------------------------------------------------------------------
(* Whiteouts and opaque directories. *)

\* mknodat (upper, path, S_IFCHR|0700, makedev (0, 0))
mknod_whiteout(s, path) ==
  IF ~ DirExists(s, Upper, ParentOf(path)) THEN Fail(s, "ENOENT")
  ELSE IF EntAt(s, Upper, path).k # "none" THEN Fail(s, "EEXIST")
  ELSE IF ~ s.c.mknod_ok THEN Fail(s, "EPERM")
  ELSE Ok([s EXCEPT !.d[Upper] = PutEnt(@, path, Ent("chr0", 0))])

\* the creation of "<parent>/.wh.<name>" that ends create_whiteout
create_whiteout_file(s, path) ==
  IF DirExists(s, Upper, ParentOf(path)) THEN Ok([s EXCEPT !.d[Upper].whf = @ \cup {path}])
  ELSE Fail(s, "ENOENT")

create_whiteout(s, parent, name, skip_mknod, force_create) ==
  LET path == s.n[parent].path \o <<name>>
      found == \E k \in 1..Len(LowerLayers) : statat(s, LowerLayers[k], path)
  IN IF ~ force_create /\ ~ found THEN Ok(s)
     ELSE IF skip_mknod \/ ~ s.mk THEN create_whiteout_file(s, path)
     ELSE Then(mknod_whiteout(s, path), LAMBDA m :
            IF m.err = "" THEN m
            ELSE IF m.err = "EEXIST" /\ is_whiteout_dev(EntAt(s, Upper, path)) THEN Ok(s)
            ELSE IF m.err # "EPERM" THEN m
            ELSE create_whiteout_file([s EXCEPT !.mk = FALSE], path))

\* delete_whiteout, for the upper path "<parent>/<name>" (given by dirfd or by parent)
delete_whiteout(s, path) ==
  Then(IF s.mk /\ is_whiteout_dev(EntAt(s, Upper, path))
         THEN [s EXCEPT !.d[Upper] = DelEnt(@, path)] ELSE s, LAMBDA s1 :
    [s1 EXCEPT !.d[Upper] = Tidy([@ EXCEPT !.whf = @ \ {path}])])

\* empty_dir (upper, path): set_fd_opaque, then empty_dirfd
empty_dir(s, path) ==
  [s EXCEPT !.d[Upper] = Tidy([ent |-> [q \in DOMAIN @.ent |->
                                          IF q \in SubPaths(path) THEN NoEnt ELSE @.ent[q]],
                               whf |-> @.whf \ SubPaths(path),
                               opq |-> (@.opq \ SubPaths(path)) \cup {path}])]

----------------------------------------------------------------------------
(* The block layer over the files of the upper layer. A buffer is a        *)
(* sequence of bytes; the ciphers are additive ciphers over ByteMod byte   *)
(* values, keyed by the block number as setIVec keys AES by it.            *)

\* gBlockSize, scaled down
gBlockSize == 2
gAllowHoles == TRUE
\* the number of byte values
ByteMod == 7
\* sizeof (revBuf) in flipBytes
FlipChunk == 64

Min(a, b) == IF a < b THEN a ELSE b
Max(a, b) == IF a < b THEN b ELSE a
Zeros(n) == [i \in 1..n |-> 0]
Take(buf, n) == SubSeq(buf, 1, Min(n, Len(buf)))
\* memcpy (dst + at, src, Len(src)) into a buffer that is long enough
Patch(dst, at, src) ==
  [i \in 1..Len(dst) |-> IF i > at /\ i <= at + Len(src) THEN src[i - at] ELSE dst[i]]

\* pread and pwrite on a regular file; a write past the end leaves a hole of zeros
pread(file, len, off) ==
  IF off >= Len(file) THEN <<>> ELSE SubSeq(file, off + 1, Min(off + len, Len(file)))
pwrite(file, buf, off) ==
  IF buf = <<>> THEN file
  ELSE Patch(file \o Zeros(Max(off + Len(buf), Len(file)) - Len(file)), off, buf)

flipBytes(buf) ==
  [i \in 1..Len(buf) |->
     LET base == FlipChunk * ((i - 1) \div FlipChunk)
         toFlip == Min(FlipChunk, Len(buf) - base)
     IN buf[base + toFlip - (i - base) + 1]]

RECURSIVE shuffled(_, _)
\* buf[i] after the loop of shuffleBytes (the byte sum stands for the exclusive or)
shuffled(buf, i) == IF i = 1 THEN buf[1] ELSE (buf[i] + shuffled(buf, i - 1)) % ByteMod
shuffleBytes(buf) == [i \in 1..Len(buf) |-> shuffled(buf, i)]
unshuffleBytes(buf) ==
  [i \in 1..Len(buf) |-> IF i = 1 THEN buf[1] ELSE (buf[i] - buf[i - 1] + ByteMod) % ByteMod]

\* EVP_EncryptUpdate and EVP_DecryptUpdate of the stream cipher under setIVec (iv)
StreamKey(iv, i) == (1 + iv + i) % ByteMod
stream_enc(buf, iv) == [i \in 1..Len(buf) |-> (buf[i] + StreamKey(iv, i)) % ByteMod]
stream_dec(buf, iv) == [i \in 1..Len(buf) |-> (buf[i] - StreamKey(iv, i) + ByteMod) % ByteMod]

streamEncode(buf, iv64) ==
  stream_enc(shuffleBytes(flipBytes(stream_enc(shuffleBytes(buf), iv64))), iv64 + 1)
\* one pass of the two
streamDecode_single_pass(buf, iv64) == unshuffleBytes(stream_dec(buf, iv64))
streamDecode(buf, iv64) ==
  unshuffleBytes(stream_dec(flipBytes(unshuffleBytes(stream_dec(buf, iv64 + 1))), iv64))

\* the block cipher under setIVec (iv)
BlockKey(iv) == 1 + (iv % 2)
blockEncode(buf, iv64) == [i \in 1..Len(buf) |-> (buf[i] + BlockKey(iv64)) % ByteMod]
blockDecode(buf, iv64) == [i \in 1..Len(buf) |-> (buf[i] - BlockKey(iv64) + ByteMod) % ByteMod]

\* readOneBlock: the bytes read (readSize is their number); a full block of zeros is a hole
readOneBlock(file, offset, dataLen) ==
  LET raw == pread(file, dataLen, offset)
      blockNum == offset \div gBlockSize
  IN IF raw = <<>> THEN raw
     ELSE IF Len(raw) # gBlockSize THEN streamDecode(raw, blockNum)
     ELSE IF gAllowHoles /\ raw = Zeros(gBlockSize) THEN raw
     ELSE blockDecode(raw, blockNum)

\* writeOneBlock: the file after the write
writeOneBlock(file, offset, buf) ==
  LET blockNum == offset \div gBlockSize
  IN pwrite(file, IF Len(buf) # gBlockSize THEN streamEncode(buf, blockNum)
                  ELSE blockEncode(buf, blockNum), offset)

\* The block layer works on f = [file, cache]: the bytes of the file the descriptor is
\* open on and node->cache. What a read returns is [f, data].
clearCache(f) == [f EXCEPT !.cache.data = <<>>]

\* readOneBlock replies -EBADMSG: streamDecode or blockDecode reports another size than
\* the block's (f.bad are the blocks for which the cipher does), and the block is not a
\* full one, whose verdict is overwritten by ok = true when holes are allowed.
decode_failed(f, offset) ==
  LET raw == pread(f.file, gBlockSize, offset)
  IN /\ raw # <<>>
     /\ offset \div gBlockSize \in f.bad
     /\ (Len(raw) # gBlockSize \/ ~ gAllowHoles)

\* A negative result leaves no bytes in the request and the cache without a length.
cacheReadOneBlock(f, offset, dataLen) ==
  IF offset = f.cache.offset /\ f.cache.data # <<>>
    THEN [f |-> f, data |-> Take(f.cache.data, dataLen), err |-> ""]
  ELSE IF decode_failed(f, offset) THEN [f |-> clearCache(f), data |-> <<>>, err |-> "EBADMSG"]
  ELSE LET got == readOneBlock(f.file, offset, gBlockSize)
       IN IF got # <<>>
            THEN [f |-> [f EXCEPT !.cache = [offset |-> offset, data |-> got]],
                  data |-> Take(got, dataLen), err |-> ""]
            ELSE [f |-> clearCache(f), data |-> <<>>, err |-> ""]

cacheWriteOneBlock(f, offset, buf) ==
  [f EXCEPT !.file = writeOneBlock(@, offset, buf),
            !.cache = [offset |-> offset, data |-> buf]]

RECURSIVE readBlocksLoop(_, _, _, _, _)
\* the while loop of readBlocks: out is what has been copied to the result so far
readBlocksLoop(f, blockNum, partialOffset, size, out) ==
  IF size = 0 THEN [f |-> f, data |-> out, err |-> ""]
  ELSE LET r == cacheReadOneBlock(f, blockNum * gBlockSize, gBlockSize)
           readSize == Len(r.data)
           cpySize == Min(readSize - partialOffset, size)
       IN IF r.err # "" THEN [f |-> r.f, data |-> out, err |-> r.err]
          ELSE IF readSize <= partialOffset THEN [f |-> r.f, data |-> out, err |-> ""]
          ELSE IF readSize < gBlockSize
            THEN [f |-> r.f, data |-> out \o SubSeq(r.data, partialOffset + 1, partialOffset + cpySize),
                  err |-> ""]
          ELSE readBlocksLoop(r.f, blockNum + 1, 0, size - cpySize,
                              out \o SubSeq(r.data, partialOffset + 1, partialOffset + cpySize))

readBlocks(f, offset, dataLen) ==
  IF offset % gBlockSize = 0 /\ dataLen <= gBlockSize THEN cacheReadOneBlock(f, offset, dataLen)
  ELSE readBlocksLoop(f, offset \div gBlockSize, offset % gBlockSize, dataLen, <<>>)

\* What memset (data, 0, gBlockSize) on the BUF_MEM header in padFile can do: the bytes
\* behind the header belong to nobody, or to node->cache.data, or to the allocator.
Overruns == {"spared", "cache", "abort"}
Overrun(f, ub) ==
  IF ub = "cache" THEN [f EXCEPT !.cache.data = Zeros(Len(@))]
  ELSE IF ub = "abort" THEN [f EXCEPT !.dead = TRUE]
  ELSE f

RECURSIVE padZeroBlocks(_, _, _, _)
padZeroBlocks(f, block, newLastBlock, ub) ==
  IF block >= newLastBlock THEN f
  ELSE padZeroBlocks(cacheWriteOneBlock(Overrun(f, ub), block * gBlockSize, Zeros(gBlockSize)),
                     block + 1, newLastBlock, ub)

padFile(f, oldSize, newSize, forceWrite, ub) ==
  LET oldLastBlock == oldSize \div gBlockSize
      newLastBlock == newSize \div gBlockSize
      newBlockSize == newSize % gBlockSize
  IN IF oldLastBlock = newLastBlock THEN f
     ELSE LET f1 == IF oldSize % gBlockSize = 0 THEN f
                    ELSE LET r == cacheReadOneBlock(Overrun(f, ub), oldLastBlock * gBlockSize,
                                                    oldSize % gBlockSize)
                         IN cacheWriteOneBlock(r.f, oldLastBlock * gBlockSize,
                                               r.data \o Zeros(gBlockSize - Len(r.data)))
              first == IF oldSize % gBlockSize = 0 THEN oldLastBlock ELSE oldLastBlock + 1
              f2 == IF gAllowHoles THEN f1 ELSE padZeroBlocks(f1, first, newLastBlock, ub)
          IN IF forceWrite /\ newBlockSize # 0
               THEN cacheWriteOneBlock(Overrun(f2, ub), newLastBlock * gBlockSize,
                                       Zeros(newBlockSize))
               ELSE f2

RECURSIVE writeBlocksLoop(_, _, _, _, _)
\* the while loop of writeBlocks: buf is what is left to write (inPtr, size)
writeBlocksLoop(f, fileSize, blockNum, partialOffset, buf) ==
  IF buf = <<>> THEN f
  ELSE LET offset == blockNum * gBlockSize
           toCopy == Min(gBlockSize - partialOffset, Len(buf))
           lastNonEmptyBlock == IF fileSize % gBlockSize = 0 THEN fileSize \div gBlockSize - 1
                                ELSE fileSize \div gBlockSize
           chunk == Take(buf, toCopy)
           rest == SubSeq(buf, toCopy + 1, Len(buf))
       IN IF toCopy = gBlockSize \/ (partialOffset = 0 /\ offset + toCopy >= fileSize)
            THEN writeBlocksLoop(cacheWriteOneBlock(f, offset, chunk), fileSize, blockNum + 1, 0, rest)
          ELSE IF blockNum > lastNonEmptyBlock
            THEN writeBlocksLoop(cacheWriteOneBlock(f, offset, Zeros(partialOffset) \o chunk),
                                 fileSize, blockNum + 1, 0, rest)
          ELSE LET r == cacheReadOneBlock(f, offset, gBlockSize)
                   dataLen == Max(Len(r.data), partialOffset + toCopy)
                   merged == Patch(r.data \o Zeros(gBlockSize - Len(r.data)), partialOffset, chunk)
               IN writeBlocksLoop(cacheWriteOneBlock(r.f, offset, Take(merged, dataLen)),
                                  fileSize, blockNum + 1, 0, rest)

\* writeBlocks (node, fileSize, blockReq): ub is what the overrun in padFile does
writeBlocks(f, fileSize, offset, buf, ub) ==
  LET blockNum == offset \div gBlockSize
      partialOffset == offset % gBlockSize
      lastFileBlock == fileSize \div gBlockSize
      lastBlockSize == fileSize % gBlockSize
      f1 == IF offset > fileSize THEN padFile(f, fileSize, offset, FALSE, ub) ELSE f
  IN IF partialOffset = 0 /\ Len(buf) <= gBlockSize
        /\ (Len(buf) = gBlockSize \/ (blockNum = lastFileBlock /\ Len(buf) >= lastBlockSize))
       THEN cacheWriteOneBlock(f1, offset, buf)
     ELSE writeBlocksLoop(f1, fileSize, blockNum, partialOffset, buf)

RECURSIVE encode_fd_to_fd(_, _, _)
\* encode_fd_to_fd: the destination file dst after the blocks of src from offset on have
\* been read and written with writeOneBlock
encode_fd_to_fd(src, offset, dst) ==
  LET nread == pread(src, gBlockSize, offset)
  IN IF nread = <<>> THEN dst
     ELSE encode_fd_to_fd(src, offset + Len(nread), writeOneBlock(dst, offset, nread))

----------------------------------------------------------------------------
(* Copy-up. *)

RECURSIVE create_directory(_, _, _, _, _)
RECURSIVE create_node_directory(_, _)

\* create_directory in the way its two callers use it: times or set_opaque are given, so
\* the directory is made in the workdir and renamed into place. ino is st_out->st_ino.
create_directory(s, path, parent, set_opaque, meta) ==
  Then(get_next_wd_counter(s), LAMBDA c :
  Then(staged(c.s, c.r, [Ent("dir", 0) EXCEPT !.meta = meta], set_opaque), LAMBDA s1 :
  Then(rename_from_workdir(s1, c.r, path), LAMBDA r1 :
    IF r1.err = "" THEN [s |-> r1.s, err |-> "", ino |-> c.s.nx]
    ELSE Then(IF r1.err = "ENOTDIR" THEN sys_unlink(s1, path).s ELSE s1, LAMBDA s2 :
         Then(IF r1.err = "ENOENT" /\ parent # Nil
                THEN create_node_directory(s2, parent) ELSE Ok(s2), LAMBDA p :
           IF p.err # "" THEN [s |-> unstaged(p.s, c.r), err |-> p.err, ino |-> 0]
           ELSE Then(rename_from_workdir(p.s, c.r, path), LAMBDA r2 :
                  IF r2.err = "" THEN [s |-> r2.s, err |-> "", ino |-> c.s.nx]
                  ELSE [s |-> unstaged(r2.s, c.r), err |-> r2.err, ino |-> 0]))))))

create_node_directory(s, src) ==
  IF src = Nil THEN Ok(s)
  ELSE IF s.n[src].layer = get_upper_layer(s) THEN Ok(s)
  ELSE LET n == s.n[src]
           e == EntAt(s, n.layer, n.path)
       IN IF e.k = "none" THEN Fail(s, "ENOENT")
          ELSE Then(create_directory(s, n.path, n.parent, FALSE, e.meta), LAMBDA r :
                 IF r.err # "" THEN Fail(r.s, r.err)
                 ELSE Then([r.s EXCEPT !.n[src].layer = Upper,
                                       !.d[Upper].ent[n.path].xa = copy_xattr(e.xa)], LAMBDA s1 :
                        Ok(IF n.parent # Nil
                             THEN delete_whiteout(s1, s1.n[n.parent].path \o <<n.name>>)
                             ELSE s1)))

\* The mode of an entry is the owner's permission digit; S_IWUSR is 0200 in it.
S_IWUSR == 2

\* copyup: the mode the copy of a file is created with (umask is 0)
copy_mode(c, mode) ==
  IF c.euid > 0 /\ (mode \div S_IWUSR) % 2 = 0 THEN mode + S_IWUSR ELSE mode

\* The steps of copying a regular file up that the system below may fail, as
\* cfg.copyup_fault names them: the open of the source, the open of the staging file,
\* do_fchown, a read or a write of encode_fd_to_fd, futimens, copy_xattr, set_fd_origin,
\* the renameat into place, the unlinkat of the ".wh." file.
CopyupFaults ==
  {"open", "staging", "chown", "read", "write", "futimens", "xattr", "origin", "rename",
   "whiteout"}

\* copyup of what is not a directory, from the open of the source on. key is
\* wd_tmp_file_name. A failed writeOneBlock leaves the loop of encode_fd_to_fd: the
\* assert on the total ends the process in a build with assertions ("DEAD", the staging
\* file is left behind), and without them encode_fd_to_fd returns 0 with nothing written.
copyup_file(s, key, node, e) ==
  LET n == s.n[node]
      fault == IF e.k = "reg" THEN s.c.copyup_fault ELSE "none"
      short == fault = "write" /\ e.data # <<>>
      ent(data) == [e EXCEPT !.org = n.path, !.xa = copy_xattr(e.xa),
                             !.meta = copy_mode(s.c, e.meta), !.data = data]
  IN IF fault \in {"open", "staging"} THEN Fail(s, "EIO")
     ELSE IF fault \in {"chown", "read", "futimens", "xattr", "origin"}
       THEN Fail(unstaged(staged(s, key, ent(<<>>), FALSE), key), "EIO")
     ELSE IF short /\ ~ s.c.ndebug THEN Fail(staged(s, key, ent(<<>>), FALSE), "DEAD")
     ELSE Then(staged(s, key, ent(IF short THEN <<>> ELSE encode_fd_to_fd(e.data, 0, <<>>)),
                      FALSE), LAMBDA s1 :
          Then(IF fault = "rename" THEN Fail(s1, "EIO")
               ELSE rename_from_workdir(s1, key, n.path), LAMBDA r :
            IF r.err # "" THEN Fail(unstaged(r.s, key), r.err)
            ELSE IF n.parent = Nil THEN Ok([r.s EXCEPT !.n[node].layer = Upper])
            \* goto exit with ret == 0 of the renameat: node->layer is not set
            ELSE IF fault = "whiteout" THEN Ok(r.s)
            ELSE Ok([sys_unlink_whfile(r.s, r.s.n[n.parent].path \o <<n.name>>).s
                       EXCEPT !.n[node].layer = Upper])))

copyup(s, node) ==
  Then(get_next_wd_counter(s), LAMBDA c :
    LET n == c.s.n[node]
        e == EntAt(c.s, n.layer, n.path)
    IN IF e.k = "none" THEN Fail(c.s, "ENOENT")
       ELSE Then(IF n.parent # Nil THEN create_node_directory(c.s, n.parent) ELSE Ok(c.s), LAMBDA p :
         IF p.err # "" THEN p
         ELSE IF e.k = "dir"
           THEN Then(create_node_directory(p.s, node), LAMBDA d :
                  IF d.err # "" THEN d ELSE Ok([d.s EXCEPT !.n[node].layer = Upper]))
         ELSE copyup_file(p.s, c.r, node, e)))

\* get_node_up without the check for a missing upper layer
get_node_up_unchecked(s, node) ==
  IF s.n[node].layer = Upper THEN Ok(s) ELSE copyup(s, node)

get_node_up(s, node) ==
  IF ~ s.c.upperdir THEN Fail(s, "EROFS")
  ELSE IF s.n[node].layer = get_upper_layer(s) THEN Ok(s)
  ELSE Then(copyup(s, node), LAMBDA r :
         \* assert (node->layer == get_upper_layer (lo))
         IF r.err = "" /\ r.s.n[node].layer # get_upper_layer(r.s) /\ ~ s.c.ndebug
           THEN Fail(r.s, "DEAD")
           ELSE r)


----------------------------------------------------------------------------
(* hide_node and do_rm. *)

\* the path a hidden node has: its staging name in the workdir, which is no overlay path
HiddenPath == <<"#">>

\* hide_node (lo, node, true): every caller passes unlink_src = true
hide_node(s, node) ==
  Then(get_next_wd_counter(s), LAMBDA c :
    LET s0 == c.s
        n == s0.n[node]
        up == get_upper_layer(s0)
        far == n.last_layer # up /\ n.parent # Nil /\ s0.n[n.parent].last_layer # up
        opaque == n.dirp /\ is_directory_opaque(s0, Upper, n.path)
        needs_whiteout == (far \/ opaque)
                            /\ (n.parent = Nil \/ ~ is_directory_opaque(s0, Upper, s0.n[n.parent].path))
    IN Then(IF ~ needs_whiteout THEN rename_to_workdir(s0, n.path, c.r)
            ELSE Then(IF s0.mk THEN rename_to_workdir_whiteout(s0, n.path, c.r)
                      ELSE Fail(s0, "EPERM"), LAMBDA a :
                   IF a.err = "" THEN a
                   ELSE Then(IF n.parent # Nil
                               THEN create_whiteout(s0, n.parent, n.name, TRUE, FALSE)
                               ELSE Ok(s0), LAMBDA w :
                          IF w.err # "" THEN w ELSE rename_to_workdir(w.s, n.path, c.r))),
            LAMBDA m :
         IF m.err # "" THEN m
         ELSE Then(drop_node_from_ino(m.s, node), LAMBDA s1 :
                IF node \notin DOMAIN s1.n THEN Ok(s1)
                ELSE Ok([s1 EXCEPT !.n = [id \in DOMAIN @ |->
                           IF id = node
                             THEN [@[id] EXCEPT !.hidden = TRUE, !.hkey = c.r, !.path = HiddenPath,
                                                !.parent = Nil,
                                                !.do_rmdir = @ \/ s1.n[node].dirp,
                                                !.do_unlink = @ \/ ~ s1.n[node].dirp]
                           ELSE IF id = s1.n[node].parent THEN [@[id] EXCEPT !.loaded = FALSE]
                           ELSE @[id]]]))))

\* count_dir_entries: c the entries, whiteouts the whiteout nodes
\* nothing is counted
count_dir_entries_sees_nothing(s, node) ==
  [c |-> 0, whiteouts |-> Cardinality({k \in s.n[node].children : s.n[k].whiteout})]

count_dir_entries(s, node) ==
  [c |-> Cardinality({k \in s.n[node].children : ~ s.n[k].whiteout}),
   whiteouts |-> Cardinality({k \in s.n[node].children : s.n[k].whiteout})]

\* do_rm: err is what fuse_reply_err sends ("" for 0)
do_rm(s, parent, name, dirp) ==
  Then(do_lookup_file(s, parent, name), LAMBDA l :
    IF l.r = Nil \/ l.s.n[l.r].whiteout THEN Fail(l.s, "ENOENT")
    ELSE Then(IF dirp THEN reload_dir(l.s, l.r) ELSE l.s, LAMBDA s1 :
         Then(count_dir_entries(s1, l.r), LAMBDA cnt :
           IF dirp /\ cnt.c > 0 THEN Fail(s1, "ENOTEMPTY")
           ELSE Then(IF s1.n[l.r].layer # get_upper_layer(s1) THEN s1
                     ELSE IF ~ dirp THEN [s1 EXCEPT !.n[l.r].do_unlink = TRUE]
                     ELSE [(IF cnt.whiteouts > 0 THEN empty_dir(s1, s1.n[l.r].path) ELSE s1)
                             EXCEPT !.n[l.r].do_rmdir = TRUE], LAMBDA s2 :
                Then(get_node_up(s2, inode_to_node(s2, parent)), LAMBDA pu :
                  IF pu.err # "" THEN pu
                  ELSE Then(get_node_up(pu.s, l.r), LAMBDA nu :
                    IF nu.err # "" THEN nu
                    ELSE Then(child_lookup(nu.s, inode_to_node(nu.s, parent), name), LAMBDA rm :
                      IF rm = Nil THEN Ok(nu.s)
                      ELSE Then(hide_node([nu.s EXCEPT
                                             !.n[inode_to_node(nu.s, parent)].children = @ \ {rm}],
                                          rm), LAMBDA h :
                             IF h.err # "" THEN h
                             ELSE Ok(IF rm \in DOMAIN h.s.n THEN node_free(h.s, rm) ELSE h.s)))))))))


----------------------------------------------------------------------------
(* ovl_unlink, ovl_rmdir *)

\* The kernel resolves the victim of unlink, rmdir and rename before it sends the request:
\* it holds a lookup on the inode record of the child called name.
KernelHolds(parent, name) ==
  LET c == child_lookup(Cur, inode_to_node(Cur, parent), name)
  IN c # Nil /\ nodes[c].ino \in DOMAIN kern

PathOf(parent, name) == nodes[inode_to_node(Cur, parent)].path \o <<name>>

\* History: the paths unlinked and not made again since, and the last rename (forgotten
\* with the next change of the tree).
Unlinked(g, p) == [g EXCEPT !.removed = @ \cup {p}, !.moved = NoMove]
Remade(g, ps) ==
  [g EXCEPT !.removed = {q \in @ : \A p \in ps : q # p /\ q \notin SubPaths(p)},
            !.moved = NoMove]

\* An error reply, or a reply that carries nothing but success.
ReplyErr(op, err, parent, name) == reply' = Replied(op, err, parent, name, 0, Nil, {})

ovl_unlink(pid, parent, name) ==
  /\ Serving
  /\ KernelHolds(parent, name)
  /\ \E verdict \in {checkAuthority(cfg, pid, parent)} :
        IF verdict # "yes" THEN Refuse("unlink", verdict, parent, name)
        ELSE \E res \in {do_rm(Cur, parent, name, FALSE)} :
             /\ Commit(res.s)
             /\ ReplyErr("unlink", res.err, parent, name)
             /\ Served
             /\ ghost' = IF res.err = "" THEN Unlinked(ghost, PathOf(parent, name)) ELSE ghost
             /\ UNCHANGED <<cfg, kern, handles>>

ovl_rmdir(pid, parent, name) ==
  /\ Serving
  /\ KernelHolds(parent, name)
  /\ \E verdict \in {checkAuthority(cfg, pid, parent)} :
        IF verdict # "yes" THEN Refuse("rmdir", verdict, parent, name)
        ELSE \E res \in {do_rm(Cur, parent, name, TRUE)} :
             /\ Commit(res.s)
             /\ ReplyErr("rmdir", res.err, parent, name)
             /\ Served
             /\ ghost' = IF res.err = "" THEN Remade(ghost, {PathOf(parent, name)}) ELSE ghost
             /\ UNCHANGED <<cfg, kern, handles>>

----------------------------------------------------------------------------
(* ovl_do_open, ovl_create, ovl_open, ovl_release *)

NoName == ""
NoFd == [layer |-> NoLayer, dino |-> 0]
OpenFailed(s, e) == [s |-> s, err |-> e, fd |-> NoFd, node |-> Nil]
Opened(s, layer, e, node) ==
  IF e.k = "none" THEN OpenFailed(s, "ENOENT")
  ELSE [s |-> s, err |-> "", fd |-> [layer |-> layer, dino |-> e.ino], node |-> node]

\* direct_create_file, for a caller with the uid and gid of the mount: ino is the inode
\* of the file the descriptor is open on
direct_create_file(s, path) ==
  LET e == EntAt(s, Upper, path)
  IN IF e.k = "reg" THEN [s |-> s, err |-> "", ino |-> e.ino]
     ELSE IF e.k = "none" /\ DirExists(s, Upper, ParentOf(path))
       THEN [s |-> [s EXCEPT !.d[Upper].ent[path] = Ent("reg", s.nx), !.nx = @ + 1],
             err |-> "", ino |-> s.nx]
     ELSE Then(get_next_wd_counter(s), LAMBDA c :
          Then(staged(c.s, c.r, Ent("reg", 0), FALSE), LAMBDA s1 :
          Then(rename_from_workdir(s1, c.r, path), LAMBDA r :
            IF r.err # "" THEN [s |-> unstaged(r.s, c.r), err |-> r.err, ino |-> 0]
            ELSE [s |-> r.s, err |-> "", ino |-> c.s.nx])))

\* the branch of ovl_do_open that creates the file: l is the result of the lookup
do_open_create(l, parent, name) ==
  LET p == inode_to_node(l.s, parent)
      is_whiteout == l.r # Nil
  IN Then(get_node_up(l.s, p), LAMBDA pu :
       IF pu.err # "" THEN OpenFailed(pu.s, pu.err)
       ELSE Then(get_next_wd_counter(pu.s), LAMBDA c :
            Then(c.s.n[p].path \o <<name>>, LAMBDA path :
            Then(direct_create_file(c.s, path), LAMBDA f :
              IF f.err # "" THEN OpenFailed(f.s, f.err)
              ELSE Then(IF c.s.n[p].loaded /\ ~ is_whiteout THEN f.s
                        ELSE delete_whiteout(f.s, path), LAMBDA s1 :
                   Then(make_ovl_node(s1, path, Upper, name, f.ino, FALSE, p), LAMBDA mk :
                   Then(insert_node(IF is_whiteout THEN mk.s
                                    ELSE [mk.s EXCEPT !.n[mk.r].last_layer = Upper],
                                    p, mk.r, TRUE), LAMBDA i :
                     [s |-> i.s, err |-> "", fd |-> [layer |-> Upper, dino |-> f.ino],
                      node |-> i.r])))))))

\* ovl_do_open (parent, name, flags): creat is O_CREAT, readonly says that the flags ask
\* for no write access; name is NoName for NULL
ovl_do_open(s, parent, name, creat, readonly) ==
  IF name # NoName /\ has_wh_prefix(name) THEN OpenFailed(s, "EINVAL")
  ELSE Then(IF name = NoName THEN [s |-> s, r |-> inode_to_node(s, parent)]
            ELSE do_lookup_file(s, parent, name), LAMBDA l :
         IF l.r # Nil /\ l.s.n[l.r].hidden
           THEN IF l.s.n[l.r].hkey \in DOMAIN l.s.w
                  THEN Opened(l.s, Upper, l.s.w[l.s.n[l.r].hkey].e, l.r)
                  ELSE OpenFailed(l.s, "ENOENT")
         ELSE IF l.r # Nil /\ ~ l.s.n[l.r].whiteout /\ creat THEN OpenFailed(l.s, "EEXIST")
         ELSE IF l.r = Nil \/ l.s.n[l.r].whiteout
           THEN IF ~ creat THEN OpenFailed(l.s, "ENOENT")
                ELSE do_open_create(l, parent, name)
         ELSE IF readonly
           THEN Opened(l.s, l.s.n[l.r].layer, EntAt(l.s, l.s.n[l.r].layer, l.s.n[l.r].path), l.r)
         ELSE Then(get_node_up(l.s, l.r), LAMBDA u :
                IF u.err # "" THEN OpenFailed(u.s, u.err)
                ELSE Opened(u.s, Upper, EntAt(u.s, Upper, u.s.n[l.r].path), l.r)))


\* file descriptors the kernel keeps open at any time
MaxFiles == 1

OpenFiles == {h \in handles : h.kind = "file"}

ovl_create(pid, parent, name) ==
  /\ Serving
  /\ Cardinality(OpenFiles) < MaxFiles
  /\ \E verdict \in {checkAuthority(cfg, pid, parent)} :
        IF verdict # "yes" THEN Refuse("create", verdict, parent, name)
        ELSE IF name_too_long(cfg, name) THEN NameTooLong("create", parent, name)
        ELSE \E res \in {ovl_do_open(Cur, parent, name, TRUE, FALSE)} :
             IF res.err # "" \/ res.node = Nil
               THEN /\ Commit(res.s)
                    /\ reply' = [Replied("create", IF res.err = "" THEN "ENOENT" ELSE res.err,
                                          parent, name, 0, Nil, {})
                                   EXCEPT !.inval = IF res.err = "" THEN notify_inval(res.s, {parent})
                                                    ELSE {}]
                    /\ Served
                    /\ UNCHANGED <<cfg, kern, handles, ghost>>
               ELSE \E ino \in {res.s.n[res.node].ino} :
                    /\ KernRef(kern, ino) < MaxLookups
                    /\ Commit(ino_lookups_inc(res.s, res.node))
                    /\ kern' = KernAdd(kern, ino)
                    /\ handles' = handles \cup {FileHandle(ino, res.fd, TRUE)}
                    /\ reply' = [Replied("create", "", parent, name, ino, res.node, {})
                                   EXCEPT !.inval = notify_inval(res.s, {parent})]
                    /\ Served
                    /\ ghost' = Remade(ghost, {PathOf(parent, name)})
                    /\ UNCHANGED cfg

\* the name a reply to open goes by: fi->flags & O_ACCMODE tells the two kinds apart
OpenOp(readonly) == IF readonly THEN "open" ELSE "open_rdwr"

ovl_open(pid, ino, readonly) ==
  /\ Serving
  /\ Cardinality(OpenFiles) < MaxFiles
  /\ \E verdict \in {checkAuthority(cfg, pid, ino)} :
        IF verdict # "yes" THEN Refuse(OpenOp(readonly), verdict, ino, NoName)
        ELSE \E res \in {ovl_do_open(Cur, ino, NoName, FALSE, readonly)} :
             /\ Commit(res.s)
             /\ handles' = IF res.err = "" THEN handles \cup {FileHandle(ino, res.fd, ~ readonly)}
                           ELSE handles
             /\ ReplyErr(OpenOp(readonly), res.err, ino, NoName)
             /\ Served
             /\ UNCHANGED <<cfg, kern, ghost>>

ovl_release(pid, h) ==
  /\ Serving
  /\ h \in handles /\ h.kind = "file"
  /\ \E verdict \in {checkAuthority(cfg, pid, h.ino)} :
        IF verdict # "yes" THEN Refuse("release", verdict, h.ino, NoName)
        ELSE /\ handles' = handles \ {h}
             /\ ReplyErr("release", "", h.ino, NoName)
             /\ Served
             /\ UNCHANGED <<cfg, disk, work, wdc, nextino, can_mknod, nodes, inodes,
                            dummy_lookups, kern, ghost>>

----------------------------------------------------------------------------
(* ovl_mkdir *)

RECURSIVE hide_each(_, _, _)
\* the for loop of hide_all over the children ids of node
hide_each(s, node, ids) ==
  IF ids = <<>> THEN Ok(s)
  ELSE Then(create_whiteout(s, node, s.n[Head(ids)].name, FALSE, TRUE), LAMBDA w :
         Then(node_free(w.s, Head(ids)), LAMBDA s1 :
           IF w.err # "" THEN Fail(s1, w.err) ELSE hide_each(s1, node, Tail(ids))))

hide_all(s, node) ==
  Then(reload_dir(s, node), LAMBDA s1 : hide_each(s1, node, SetToSeq(s1.n[node].children)))

EntryFailed(s, e) == [s |-> s, err |-> e, ino |-> 0, node |-> Nil]

\* A faulty mkdir: the directory is made in the upper layer without the opaque mark, and
\* what the lower layers hold below it is not hidden.
do_mkdir_bare(s, parent, name) ==
  Then(do_lookup_file(s, parent, name), LAMBDA l :
    IF l.r # Nil /\ ~ l.s.n[l.r].whiteout THEN EntryFailed(l.s, "EEXIST")
    ELSE Then(inode_to_node(l.s, parent), LAMBDA p :
         Then(get_node_up(l.s, p), LAMBDA pu :
           IF pu.err # "" THEN EntryFailed(pu.s, pu.err)
           ELSE LET path == pu.s.n[p].path \o <<name>>
                IN Then(create_directory(pu.s, path, p, FALSE, 0), LAMBDA d :
                     IF d.err # "" THEN EntryFailed(d.s, d.err)
                     ELSE Then(make_ovl_node(delete_whiteout(d.s, path), path, Upper, name, 0,
                                             TRUE, p), LAMBDA mk :
                          Then(insert_node(mk.s, p, mk.r, TRUE), LAMBDA i :
                            [s |-> ino_lookups_inc(i.s, i.r), err |-> "",
                             ino |-> i.s.n[i.r].ino, node |-> i.r]))))))

\* ovl_mkdir's call of create_directory (set_opaque is true)
mkdir_create_directory(s, path, parent) == create_directory(s, path, parent, TRUE, 0)

\* ovl_mkdir after the gate: what it replies and the state it leaves
do_mkdir(s, parent, name) ==
  Then(do_lookup_file(s, parent, name), LAMBDA l :
    IF l.r # Nil /\ ~ l.s.n[l.r].whiteout THEN EntryFailed(l.s, "EEXIST")
    ELSE Then(inode_to_node(l.s, parent), LAMBDA p :
         Then(get_node_up(l.s, p), LAMBDA pu :
           IF pu.err # "" THEN EntryFailed(pu.s, pu.err)
           ELSE LET need_delete_whiteout == ~ (pu.s.n[p].loaded /\ l.r = Nil)
                    parent_upperdir_only == pu.s.n[p].last_layer = get_upper_layer(pu.s)
                    path == pu.s.n[p].path \o <<name>>
                IN Then(mkdir_create_directory(pu.s, path, p), LAMBDA d :
                     IF d.err # "" THEN EntryFailed(d.s, d.err)
                     ELSE Then(make_ovl_node(IF need_delete_whiteout THEN delete_whiteout(d.s, path)
                                             ELSE d.s,
                                             path, Upper, name,
                                             IF parent_upperdir_only THEN d.ino ELSE 0, TRUE, p),
                               LAMBDA mk :
                          Then(insert_node(mk.s, p, mk.r, TRUE), LAMBDA i :
                          Then(IF parent_upperdir_only
                                 THEN Ok([i.s EXCEPT !.n[i.r].last_layer = i.s.n[p].last_layer,
                                                     !.n[i.r].loaded = IF i.s.c.timeout THEN TRUE ELSE @])
                                 ELSE hide_all(i.s, i.r), LAMBDA h :
                            IF h.err # "" THEN EntryFailed(h.s, h.err)
                            ELSE IF ~ node_stat_ok(h.s, i.r) THEN EntryFailed(h.s, "ENOENT")
                            ELSE [s |-> ino_lookups_inc(h.s, i.r), err |-> "",
                                  ino |-> h.s.n[i.r].ino, node |-> i.r])))))))

ovl_mkdir(pid, parent, name) ==
  /\ Serving
  /\ \E verdict \in {checkAuthority(cfg, pid, parent)} :
        IF verdict # "yes" THEN Refuse("mkdir", verdict, parent, name)
        ELSE IF name_too_long(cfg, name) THEN NameTooLong("mkdir", parent, name)
        ELSE \E res \in {do_mkdir(Cur, parent, name)} :
             /\ KernRef(kern, res.ino) < MaxLookups
             /\ Commit(res.s)
             /\ kern' = IF res.ino # 0 THEN KernAdd(kern, res.ino) ELSE kern
             /\ reply' = Replied("mkdir", res.err, parent, name, res.ino, res.node, {})
             /\ Served
             /\ ghost' = IF res.err = "" THEN Remade(ghost, {PathOf(parent, name)}) ELSE ghost
             /\ UNCHANGED <<cfg, handles>>


----------------------------------------------------------------------------
(* ovl_rename (without RENAME_EXCHANGE): ovl_rename_direct *)

\* a path update that stops at the node and leaves its cached descendants alone
update_paths_shallow(s, node) ==
  IF s.n[node].parent # Nil
    THEN [s EXCEPT !.n[node].path = s.n[s.n[node].parent].path \o <<s.n[node].name>>]
    ELSE s

RECURSIVE update_paths(_, _)
RECURSIVE update_paths_each(_, _)
update_paths_each(s, ids) ==
  IF ids = <<>> THEN s ELSE update_paths_each(update_paths(s, Head(ids)), Tail(ids))

update_paths(s, node) ==
  Then(IF s.n[node].parent # Nil
         THEN [s EXCEPT !.n[node].path = s.n[s.n[node].parent].path \o <<s.n[node].name>>]
         ELSE s, LAMBDA s1 :
    update_paths_each(s1, SetToSeq(s1.n[node].children)))

RECURSIVE missing_whiteouts_names(_, _, _, _, _)
\* the dirents of create_missing_whiteouts in layer l (those of directories below the
\* second level do not exist in the model, so the recursive call finds nothing)
missing_whiteouts_names(s, node, l, from, k) ==
  IF k > Len(NameSeq) THEN Ok(s)
  ELSE IF ~ statat(s, l, from \o <<NameSeq[k]>>) \/ child_lookup(s, node, NameSeq[k]) # Nil
    THEN missing_whiteouts_names(s, node, l, from, k + 1)
  ELSE Then(create_whiteout(s, node, NameSeq[k], FALSE, TRUE), LAMBDA w :
         IF w.err # "" THEN w ELSE missing_whiteouts_names(w.s, node, l, from, k + 1))

RECURSIVE missing_whiteouts_layers(_, _, _, _)
missing_whiteouts_layers(s, node, from, idx) ==
  IF idx > Len(LowerLayers) THEN Ok(s)
  ELSE LET e == EntAt(s, LowerLayers[idx], from)
       IN IF e.k = "none" THEN missing_whiteouts_layers(s, node, from, idx + 1)
          ELSE IF e.k # "dir" THEN Ok(s)
          ELSE Then(missing_whiteouts_names(s, node, LowerLayers[idx], from, 1), LAMBDA w :
                 IF w.err # "" THEN w ELSE missing_whiteouts_layers(w.s, node, from, idx + 1))

create_missing_whiteouts(s, node, from) ==
  IF ~ s.n[node].dirp THEN Ok(s)
  ELSE Then(reload_dir(s, node), LAMBDA s1 : missing_whiteouts_layers(s1, node, from, 1))

\* errno as an earlier call left it: ovl_rename_direct jumps to its error reply without
\* setting it when source and destination are the same inode
StaleErrno == "errno"

\* the `if (destnode)` block of ovl_rename_direct: wh is destnode_is_whiteout
rename_clear_dest(s, node, destnode) ==
  IF destnode = Nil THEN [s |-> s, err |-> "", wh |-> FALSE]
  ELSE LET dn == s.n[destnode]
           isdir == ~ dn.whiteout /\ dn.dirp
           held == IF dn.ino = DummyIno THEN s.dl ELSE dn.ino # Nil /\ s.i[dn.ino].lookups > 0
       IN IF ~ dn.whiteout /\ dn.tmp_ino = s.n[node].tmp_ino
            THEN [s |-> s, err |-> StaleErrno, wh |-> FALSE]
          ELSE Then(IF isdir THEN reload_dir(s, destnode) ELSE s, LAMBDA s1 :
               Then(count_dir_entries(s1, destnode), LAMBDA cnt :
                 IF isdir /\ cnt.c > 0 THEN [s |-> s1, err |-> "ENOTEMPTY", wh |-> FALSE]
                 ELSE IF isdir /\ cnt.whiteouts > 0 /\ ~ DirExists(s1, Upper, dn.path)
                   THEN [s |-> s1, err |-> "ENOENT", wh |-> FALSE]
                 ELSE Then(create_missing_whiteouts(
                             IF isdir /\ cnt.whiteouts > 0 THEN empty_dir(s1, dn.path) ELSE s1,
                             node, dn.path), LAMBDA cm :
                   IF cm.err # "" THEN [s |-> cm.s, err |-> cm.err, wh |-> FALSE]
                   ELSE Then(node_free(cm.s, destnode), LAMBDA s3 :
                     IF ~ held \/ dn.whiteout THEN [s |-> s3, err |-> "", wh |-> dn.whiteout]
                     ELSE Then(get_node_up(s3, destnode), LAMBDA gu :
                       IF gu.err # "" THEN [s |-> gu.s, err |-> gu.err, wh |-> FALSE]
                       ELSE Then(hide_node(gu.s, destnode), LAMBDA h :
                              [s |-> h.s, err |-> h.err, wh |-> FALSE]))))))

\* the fallback of ovl_rename_direct: rename, then create the whiteout
rename_fallback(s, from, to, pnode, name, flags) ==
  Then(direct_renameat2(s, from, to, flags), LAMBDA r3 :
    IF r3.err # "" THEN r3
    ELSE Then(create_whiteout(r3.s, pnode, name, FALSE, TRUE), LAMBDA w :
           IF w.err # "" THEN w ELSE Ok([w.s EXCEPT !.n[pnode].loaded = FALSE])))

\* the renames of ovl_rename_direct, from `if (destnode_is_whiteout)` to the label done
rename_on_disk(s, node, pnode, destpnode, name, newname, flags, wh) ==
  LET from == s.n[pnode].path \o <<name>>
      to == s.n[destpnode].path \o <<newname>>
  IN Then(IF wh THEN direct_renameat2(s, from, to, flags \cup {"EXCHANGE"})
          ELSE Fail(s, "skip"), LAMBDA x :
       IF x.err = "" THEN x
       ELSE Then(IF s.n[node].dirp
                   THEN Then(create_whiteout(s, destpnode, newname, TRUE, TRUE), LAMBDA w :
                          IF w.err # "" THEN w ELSE Ok(sys_unlink(w.s, to).s))
                   ELSE Ok(s), LAMBDA d :
            IF d.err # "" THEN d
            ELSE Then(IF ~ d.s.mk THEN Fail(d.s, "EPERM")
                      ELSE direct_renameat2(d.s, from, to, flags \cup {"WHITEOUT"}), LAMBDA r1 :
                 Then(IF r1.err = "EEXIST"
                        THEN direct_renameat2(d.s, from, to, flags \ {"NOREPLACE"})
                        ELSE r1, LAMBDA r2 :
                 Then(IF r2.err # "" THEN rename_fallback(d.s, from, to, pnode, name, flags)
                      ELSE r2, LAMBDA r :
                   IF r.err # "" THEN r ELSE Ok(delete_whiteout(r.s, to)))))))


\* the label done of ovl_rename_direct
rename_done(s, node, pnode, destpnode, newname) ==
  Then(insert_node([s EXCEPT !.n[pnode].children = @ \ {node}, !.n[node].name = newname],
                   destpnode, node, TRUE), LAMBDA i :
    Ok([update_paths(i.s, i.r) EXCEPT !.n[i.r].loaded = FALSE]))

ovl_rename_direct(s, parent, name, newparent, newname, flags) ==
  Then(do_lookup_file(s, parent, name), LAMBDA l :
    IF l.r = Nil \/ l.s.n[l.r].whiteout THEN Fail(l.s, "ENOENT")
    ELSE Then(IF l.s.n[l.r].dirp THEN reload_dir(l.s, l.r) ELSE l.s, LAMBDA s1 :
      IF s1.n[l.r].dirp /\ (s1.n[l.r].layer # get_upper_layer(s1)
                             \/ s1.n[l.r].last_layer # get_upper_layer(s1))
        THEN Fail(s1, "EXDEV")
      ELSE LET node == l.r
               pnode == s1.n[l.r].parent
               destpnode == inode_to_node(s1, newparent)
           IN Then(get_node_up(s1, pnode), LAMBDA pu :
                IF pu.err # "" THEN pu
                ELSE IF ~ DirExists(pu.s, Upper, pu.s.n[pnode].path) THEN Fail(pu.s, "ENOENT")
                ELSE Then(get_node_up(pu.s, destpnode), LAMBDA du :
                  IF du.err # "" THEN du
                  ELSE IF ~ DirExists(du.s, Upper, du.s.n[destpnode].path) THEN Fail(du.s, "ENOENT")
                  ELSE Then(child_lookup(du.s, destpnode, newname), LAMBDA destnode :
                       Then(get_node_up(du.s, node), LAMBDA nu :
                         IF nu.err # "" THEN nu
                         ELSE IF "NOREPLACE" \in flags /\ destnode # Nil /\ ~ nu.s.n[destnode].whiteout
                           THEN Fail(nu.s, "EEXIST")
                         ELSE Then(rename_clear_dest(nu.s, node, destnode), LAMBDA c :
                           IF c.err # "" THEN Fail(c.s, c.err)
                           ELSE Then(rename_on_disk(c.s, node, pnode, destpnode, name, newname,
                                                    flags, c.wh), LAMBDA r :
                             IF r.err # "" THEN r
                             ELSE rename_done(r.s, node, pnode, destpnode, newname)))))))))

\* ovl_rename_exchange from the two hash_delete calls to the reply
exchange_done(s, node, destnode, pnode, destpnode, to) ==
  Then([s EXCEPT !.n[destpnode].children = @ \ {destnode}], LAMBDA s0 :
  Then([s0 EXCEPT !.n[pnode].children = @ \ {node}], LAMBDA s1 :
  Then([s1 EXCEPT !.n[node].path = s1.n[destnode].path, !.n[node].name = s1.n[destnode].name,
                  !.n[destnode].path = s1.n[node].path, !.n[destnode].name = s1.n[node].name],
       LAMBDA s2 :
  Then(insert_node(s2, destpnode, node, TRUE), LAMBDA i1 :
  Then(insert_node(i1.s, pnode, destnode, TRUE), LAMBDA i2 :
    Ok(delete_whiteout(update_paths(update_paths(i2.s, i1.r), i2.r), to)))))))

\* ovl_rename_exchange.  get_node_up is called on destnode whatever it is: the node of a
\* whiteout has no layer, and copyup follows node->layer (the reply "DEAD").
ovl_rename_exchange(s, parent, name, newparent, newname, flags) ==
  Then(do_lookup_file(s, parent, name), LAMBDA l :
    IF l.r = Nil \/ l.s.n[l.r].whiteout THEN Fail(l.s, "ENOENT")
    ELSE Then(IF l.s.n[l.r].dirp THEN reload_dir(l.s, l.r) ELSE l.s, LAMBDA s1 :
      IF s1.n[l.r].dirp /\ (s1.n[l.r].layer # get_upper_layer(s1)
                             \/ s1.n[l.r].last_layer # get_upper_layer(s1))
        THEN Fail(s1, "EXDEV")
      ELSE LET node == l.r
               pnode == s1.n[l.r].parent
               destpnode == inode_to_node(s1, newparent)
           IN Then(get_node_up(s1, pnode), LAMBDA pu :
                IF pu.err # "" THEN pu
                ELSE IF ~ DirExists(pu.s, Upper, pu.s.n[pnode].path) THEN Fail(pu.s, "ENOENT")
                ELSE Then(get_node_up(pu.s, destpnode), LAMBDA du :
                  IF du.err # "" THEN du
                  ELSE IF ~ DirExists(du.s, Upper, du.s.n[destpnode].path) THEN Fail(du.s, "ENOENT")
                  ELSE Then(do_lookup_file(du.s, newparent, newname), LAMBDA dl :
                       Then(get_node_up(dl.s, node), LAMBDA nu :
                         IF nu.err # "" THEN nu
                         ELSE IF dl.r = Nil THEN Fail(nu.s, "ENOENT")
                         ELSE IF nu.s.n[node].dirp /\ nu.s.n[dl.r].last_layer # get_upper_layer(nu.s)
                           THEN Fail(nu.s, "EXDEV")
                         ELSE IF nu.s.n[dl.r].layer = NoLayer THEN Fail(nu.s, "DEAD")
                         ELSE Then(get_node_up(nu.s, dl.r), LAMBDA gu :
                           IF gu.err # "" THEN gu
                           ELSE Then(direct_renameat2(gu.s, gu.s.n[pnode].path \o <<name>>,
                                                      gu.s.n[destpnode].path \o <<newname>>,
                                                      flags), LAMBDA r :
                             IF r.err # "" THEN r
                             ELSE exchange_done(r.s, node, dl.r, pnode, destpnode,
                                                r.s.n[destpnode].path \o <<newname>>)))))))))

RenameFlags == {{}, {"NOREPLACE"}}

\* the node and inode record the kernel knows at parent/name
HeldAt(parent, name) ==
  LET c == child_lookup(Cur, inode_to_node(Cur, parent), name)
  IN [node |-> c, ino |-> nodes[c].ino]

\* The Linux VFS exchanges two names it has resolved: it refuses RENAME_EXCHANGE onto a
\* negative dentry before the request is sent.
ExchangeResolved(newparent, newname, flags) ==
  "EXCHANGE" \in flags => KernelHolds(newparent, newname)

ovl_rename(pid, parent, name, newparent, newname, flags) ==
  /\ Serving
  /\ KernelHolds(parent, name)
  /\ PathOf(parent, name) # PathOf(newparent, newname)
  \* the kernel moves no directory below itself; directories keep their depth in the model
  /\ nodes[HeldAt(parent, name).node].dirp =>
        Len(PathOf(parent, name)) = Len(PathOf(newparent, newname))
  /\ ("EXCHANGE" \in flags /\ KernelHolds(newparent, newname)
                            /\ nodes[HeldAt(newparent, newname).node].dirp) =>
        Len(PathOf(parent, name)) = Len(PathOf(newparent, newname))
  /\ \E verdict \in {checkAuthority(cfg, pid, parent)} :
        IF verdict # "yes" THEN Refuse("rename", verdict, parent, name)
        ELSE IF name_too_long(cfg, newname) THEN NameTooLong("rename", parent, name)
        ELSE \E res \in {IF "EXCHANGE" \in flags
                             THEN ovl_rename_exchange(Cur, parent, name, newparent, newname, flags)
                             ELSE ovl_rename_direct(Cur, parent, name, newparent, newname, flags)} :
             /\ Commit(res.s)
             /\ reply' = [Replied("rename", res.err, parent, name, 0, Nil, {})
                            EXCEPT !.inval = notify_inval(res.s, {parent, newparent})]
             /\ Served
             /\ ghost' = IF res.err # "" THEN ghost
                         ELSE [Remade(ghost, {PathOf(parent, name), PathOf(newparent, newname)})
                                 EXCEPT !.moved = [from |-> PathOf(parent, name),
                                                   to |-> PathOf(newparent, newname),
                                                   flags |-> flags]
                                                  @@ HeldAt(parent, name)]
             /\ UNCHANGED <<cfg, kern, handles>>


----------------------------------------------------------------------------
(* The namespace specification: layer stacks with whiteouts and merged     *)
(* directories are mounted, and the kernel looks up, lists, creates,       *)
(* removes and renames.                                                    *)

NoTop == [n \in Names |-> "none"]
Top(a, b) == [n \in Names |-> IF n = "a" THEN a ELSE b]

\* The layer stacks the namespace specification mounts: upper, first lower, second lower.
NSDisks ==
  { \* a file only the upper layer has, next to a file only a lower layer has
    [U |-> LayerImage("U", Top("reg", "none"), {}, {}, {}),
     L1 |-> LayerImage("L1", Top("none", "reg"), {}, {}, {}),
     L2 |-> EmptyLayer],
    \* a lower file next to a lower file hidden by a whiteout device
    [U |-> LayerImage("U", Top("none", "chr0"), {}, {}, {}),
     L1 |-> LayerImage("L1", Top("reg", "reg"), {}, {}, {}),
     L2 |-> EmptyLayer],
    \* lower directories hidden by a whiteout device
    [U |-> LayerImage("U", Top("chr0", "none"), {}, {}, {}),
     L1 |-> LayerImage("L1", Top("dir", "none"), {<<"a", "a">>}, {}, {}),
     L2 |-> LayerImage("L2", Top("dir", "reg"), {<<"a", "b">>}, {}, {})],
    \* a lower directory hidden by a .wh. file
    [U |-> LayerImage("U", NoTop, {}, {<<"a">>}, {}),
     L1 |-> LayerImage("L1", Top("dir", "reg"), {<<"a", "a">>}, {}, {}),
     L2 |-> EmptyLayer],
    \* a directory merged from the upper and a lower layer
    [U |-> LayerImage("U", Top("dir", "none"), {<<"a", "a">>}, {}, {}),
     L1 |-> LayerImage("L1", Top("dir", "none"), {<<"a", "b">>}, {}, {}),
     L2 |-> LayerImage("L2", Top("none", "reg"), {}, {}, {})] }

NSOptions ==
  {[Options(TRUE, t, FALSE, MaxSteps) EXCEPT !.rename_whiteout = w, !.mknod_ok = w] :
     t \in BOOLEAN, w \in BOOLEAN}

InitNS ==
  /\ cfg \in NSOptions
  /\ \E d \in NSDisks : Mounted(d)
  /\ ghost = GhostInit

\* the directories a request may name as the parent of a name
NameDirs == {k \in KnownDirs : Len(nodes[inode_to_node(Cur, k)].path) <= 1}

NextNS ==
  \/ \E pid \in Callers, parent \in NameDirs, name \in Names : ovl_lookup(pid, parent, name)
  \/ \E pid \in Callers, ino \in KnownDirs : ovl_opendir(pid, ino)
  \/ \E pid \in Callers, h \in handles : ovl_readdir(pid, h)
  \/ \E pid \in Callers, h \in handles : ovl_releasedir(pid, h)
  \/ \E pid \in Callers, ino \in DOMAIN kern : ovl_forget(pid, ino, kern[ino])
  \/ \E pid \in Callers, parent \in NameDirs, name \in Names : ovl_create(pid, parent, name)
  \/ \E pid \in Callers, h \in handles : ovl_release(pid, h)
  \/ \E pid \in Callers, parent \in NameDirs, name \in Names : ovl_mkdir(pid, parent, name)
  \/ \E pid \in Callers, parent \in NameDirs, name \in Names : ovl_unlink(pid, parent, name)
  \/ \E pid \in Callers, parent \in NameDirs, name \in Names : ovl_rmdir(pid, parent, name)
  \/ \E pid \in Callers, parent \in NameDirs, name \in Names,
        newparent \in NameDirs, newname \in Names, flags \in RenameFlags :
        ovl_rename(pid, parent, name, newparent, newname, flags)

SpecNS == InitNS /\ [][NextNS]_vars


----------------------------------------------------------------------------
(* What the namespace handlers promise. *)

\* C1: once unlink(D, X) has replied success, every later lookup(D, X) is not-found and
\* every later readdir(D) omits X, until X is made again.
C1_UnlinkedStaysGone ==
  /\ (reply.op = "lookup" /\ (ghost.pre.path \o <<reply.name>>) \in ghost.removed)
        => reply.ino = 0
  /\ (reply.op = "readdir" /\ reply.err = "")
        => \A nm \in Names : (ghost.pre.path \o <<nm>>) \in ghost.removed => nm \notin reply.names


\* C2: after rename(A -> B) has replied success, and until the tree changes again or the
\* kernel forgets the inode, a lookup of A is not-found and a lookup of B returns the node
\* and the inode record that were at A.
C2_RenameMovesEntry ==
  (reply.op = "lookup" /\ reply.err = "" /\ ghost.moved.node # Nil) =>
    LET p == ghost.pre.path \o <<reply.name>>
    IN /\ p = ghost.moved.from => reply.ino = 0
       /\ p = ghost.moved.to => reply.node = ghost.moved.node /\ reply.ino = ghost.moved.ino


\* The names a readdir of the directory node lists in state s.
readdir_names(s, node) ==
  Then(reload_tbl(s, node), LAMBDA t : listed_names(t.s, t.tbl))

RECURSIVE walk_from(_, _, _)
\* The inode a chain of lookups from directory ino reaches along path p (0: not found).
walk_from(s, ino, p) ==
  IF p = <<>> THEN [s |-> s, ino |-> ino]
  ELSE Then(lookup_result(s, ino, Head(p)), LAMBDA l :
         IF l.ino = 0 THEN [s |-> l.s, ino |-> 0] ELSE walk_from(l.s, l.ino, Tail(p)))

\* The names a readdir of path p lists when nothing is cached: the node graph is built
\* again from the layers d, as main does.
readdir_names_reloaded(c, d, p) ==
  Then(walk_from(MountState(c, d), FUSE_ROOT_ID, p), LAMBDA w :
    IF w.ino = 0 THEN {"ENOENT"} ELSE readdir_names(w.s, inode_to_node(w.s, w.ino)))

\* C3: after mkdir(D, X) succeeds where some lower layer contains a directory D/X, readdir(D/X)
\* lists no entry other than "." and "..", also when the directory is loaded anew from the
\* layers.
C3_MkdirHidesLowerDir ==
  (/\ reply.op = "mkdir" /\ reply.err = ""
   /\ \E l \in {LowerLayers[i] : i \in DOMAIN LowerLayers} :
         EntAt(Cur, l, nodes[reply.node].path).k = "dir") =>
     /\ readdir_names(Cur, reply.node) \subseteq {".", ".."}
     /\ readdir_names_reloaded(cfg, disk, nodes[reply.node].path) \subseteq {".", ".."}

\* mkdir(root, "a") succeeded over a whiteout although a lower layer holds a directory "a"
\* with an entry in it.
C3_Witness ==
  /\ reply.op = "mkdir" /\ reply.err = ""
  /\ \E l \in {LowerLayers[i] : i \in DOMAIN LowerLayers} :
        /\ EntAt(Cur, l, nodes[reply.node].path).k = "dir"
        /\ \E nm \in Names : EntAt(Cur, l, nodes[reply.node].path \o <<nm>>).k # "none"
  /\ "." \in readdir_names(Cur, reply.node)


----------------------------------------------------------------------------
(* Reading, writing and changing the attributes of regular files.          *)

\* The paths at which its layer holds the file a descriptor was opened on.
FdPaths(s, h) ==
  {p \in Paths : h.layer # NoLayer /\ EntAt(s, h.layer, p).k = "reg"
                 /\ EntAt(s, h.layer, p).ino = h.dino}
FdPath(s, h) == CHOOSE p \in FdPaths(s, h) : TRUE
\* the names in the working directory of the file a descriptor is open on, once hide_node
\* has moved it there, and the bytes of the file behind a descriptor
FdWork(s, h) ==
  {k \in DOMAIN s.w : h.layer = Upper /\ s.w[k].e.k = "reg" /\ s.w[k].e.ino = h.dino}
FdOpen(s, h) == FdPaths(s, h) # {} \/ FdWork(s, h) # {}
FdData(s, h) ==
  IF FdPaths(s, h) # {} THEN EntAt(s, h.layer, FdPath(s, h)).data
  ELSE s.w[CHOOSE k \in FdWork(s, h) : TRUE].e.data

\* node->layer == get_upper_layer (lo) || node->last_layer == get_upper_layer (lo)
on_upper(s, node) ==
  s.n[node].layer = get_upper_layer(s) \/ s.n[node].last_layer = get_upper_layer(s)

\* ovl_read: what is replied for (size, offset) on the descriptor h, and the state after it.
\* A node on the upper layer is read with readBlocks into a zeroed buffer of size bytes,
\* which is replied whole; any other node is read from the descriptor as it is.  res is
\* what readBlocks returns, which nothing looks at.
do_read(s, ino, h, offset, size) ==
  LET node == inode_to_node(s, ino)
      file == FdData(s, h)
  IN IF on_upper(s, node)
       THEN LET r == readBlocks([file |-> file, cache |-> s.n[node].cache, dead |-> FALSE,
                                 bad |-> s.c.decode_bad],
                                offset, size)
            IN [s |-> [s EXCEPT !.n[node].cache = r.f.cache],
                data |-> r.data \o Zeros(size - Len(r.data)), res |-> r.err]
       ELSE [s |-> s, data |-> pread(file, size, offset), res |-> ""]

WriteFailed(s, e) == [s |-> s, err |-> e, dead |-> FALSE]

\* ovl_write_buf: a node on the upper layer is written with writeBlocks through a new
\* descriptor on node->path; any other node is written through the descriptor h.  Writes
\* are followed with a cipher that decodes every block it is given.  The path of a hidden
\* node is its name in the working directory, which openat looks for below the upper
\* layer: blockReq.fd is -1, rpl_stat finds the file in the working directory, and the
\* pwrite of writeOneBlock fails with EBADF, upon which cacheWriteOneBlock clears the cache.
do_write_buf(s, ino, h, off, buf, ub) ==
  LET node == inode_to_node(s, ino)
  IN IF node = Nil \/ s.n[node].whiteout THEN WriteFailed(s, "ENOENT")
     ELSE IF on_upper(s, node)
       THEN LET n == s.n[node]
                e == EntAt(s, n.layer, n.path)
            IN IF n.hidden
                 THEN IF n.hkey \notin DOMAIN s.w THEN WriteFailed(s, "ENOENT")
                      ELSE WriteFailed([s EXCEPT !.n[node].cache.data = <<>>], "EBADF")
               ELSE IF e.k # "reg" THEN WriteFailed(s, "ENOENT")
               ELSE LET f == writeBlocks([file |-> e.data, cache |-> n.cache, dead |-> FALSE,
                                          bad |-> {}],
                                         Len(e.data), off, buf, ub)
                    IN [s |-> [s EXCEPT !.d[n.layer].ent[n.path].data = f.file,
                                        !.n[node].cache = f.cache],
                        err |-> "", dead |-> f.dead]
     ELSE IF ~ h.rw THEN WriteFailed(s, "EBADF")
     ELSE [s |-> [s EXCEPT !.d[h.layer].ent[FdPath(s, h)].data = pwrite(@, buf, off)],
           err |-> "", dead |-> FALSE]

\* fchmod (fd, mode): the file behind the descriptor gets the mode
do_fchmod(s, h, mode) == [s EXCEPT !.d[h.layer].ent[FdPath(s, h)].meta = mode]

NoHandle == [kind |-> "none", ino |-> 0, parent |-> Nil, tbl |-> <<>>, layer |-> NoLayer,
             dino |-> 0, rw |-> FALSE]

\* rpl_stat (node, fd): mode, size and inode number as fstat (fd) or statat (node->path)
\* report them, st_ino replaced by node->tmp_ino; fi is NoHandle for fd = -1
rpl_stat(s, node, fi) ==
  LET n == s.n[node]
      e == IF fi # NoHandle THEN EntAt(s, fi.layer, FdPath(s, fi))
           ELSE IF n.hidden THEN (IF n.hkey \in DOMAIN s.w THEN s.w[n.hkey].e ELSE NoEnt)
           ELSE IF n.layer = NoLayer THEN NoEnt
           ELSE EntAt(s, n.layer, n.path)
  IN IF e.k = "none" THEN [err |-> "ENOENT", attr |-> <<>>]
     ELSE [err |-> "", attr |-> <<e.meta, Len(e.data), n.tmp_ino>>]

\* struct stat *attr of a setattr request
StAttr(mode, size) == [st_mode |-> mode, st_size |-> size]
\* ftruncate (fd, length) and truncate (path, length) on the bytes of a file
ftruncate(file, length) ==
  IF length <= Len(file) THEN SubSeq(file, 1, length) ELSE file \o Zeros(length - Len(file))

\* ovl_setattr with to_set a subset of {FUSE_SET_ATTR_MODE, FUSE_SET_ATTR_SIZE}; fi is
\* NoHandle when the request carries no file handle, and then the node is opened by its
\* path below node_dirfd (node), for writing when the size is set.  A descriptor that is
\* not open for writing makes ftruncate fail with EINVAL.
do_setattr(s, ino, fi, to_set, attr) ==
  Then([s |-> s, r |-> inode_to_node(s, ino)], LAMBDA l :
    IF l.r = Nil \/ l.s.n[l.r].whiteout THEN Fail(l.s, "ENOENT")
    ELSE Then(get_node_up(l.s, l.r), LAMBDA u :
      IF u.err # "" THEN u
      ELSE IF fi # NoHandle
        THEN Then(IF "MODE" \in to_set THEN do_fchmod(u.s, fi, attr.st_mode) ELSE u.s, LAMBDA s1 :
               IF "SIZE" \notin to_set THEN Ok(s1)
               ELSE IF ~ fi.rw THEN Fail(s1, "EINVAL")
               ELSE Ok([s1 EXCEPT !.d[fi.layer].ent[FdPath(s1, fi)].data =
                                     ftruncate(@, attr.st_size)]))
      ELSE LET n == u.s.n[l.r]
           IN IF EntAt(u.s, n.layer, n.path).k = "none" THEN Fail(u.s, "ENOENT")
              ELSE Then(IF "MODE" \in to_set
                          THEN [u.s EXCEPT !.d[n.layer].ent[n.path].meta = attr.st_mode]
                          ELSE u.s, LAMBDA s1 :
                     IF "SIZE" \notin to_set THEN Ok(s1)
                     ELSE IF EntAt(s1, n.layer, n.path).k = "dir" THEN Fail(s1, "EISDIR")
                     ELSE Ok([s1 EXCEPT !.d[n.layer].ent[n.path].data =
                                           ftruncate(@, attr.st_size)]))))


IOSteps == 5
MaxOffset == 4
MaxWrite == 3
MaxRead == 3
MaxLower == 4
MaxUpper == 2

KnownFiles == {k \in KnownInos : LET n == nodes[inode_to_node(Cur, k)] IN ~ n.dirp /\ ~ n.hidden}

ovl_read(pid, h, offset, size) ==
  /\ Serving
  /\ h \in OpenFiles /\ FdOpen(Cur, h)
  /\ \E verdict \in {checkAuthority(cfg, pid, h.ino)} :
        IF verdict # "yes" THEN Refuse("read", verdict, h.ino, NoName)
        ELSE \E res \in {do_read(Cur, h.ino, h, offset, size)} :
             /\ Commit(res.s)
             /\ reply' = [Replied("read", "", h.ino, NoName, h.ino, inode_to_node(Cur, h.ino), {})
                            EXCEPT !.off = offset, !.data = res.data]
             /\ Served
             /\ UNCHANGED <<cfg, dummy_lookups, kern, handles, ghost>>

\* The kernel sends writes on descriptors opened for writing only.
ovl_write_buf(pid, h, off, buf, ub) ==
  /\ Serving
  /\ h \in OpenFiles /\ h.rw /\ FdOpen(Cur, h)
  /\ IF nodes[inode_to_node(Cur, h.ino)].whiteout
       THEN /\ ReplyErr("write", "ENOENT", h.ino, NoName)
            /\ Served
            /\ UNCHANGED <<cfg, disk, work, wdc, nextino, can_mknod, nodes, inodes,
                           dummy_lookups, kern, handles, ghost>>
       ELSE \E verdict \in {checkAuthority(cfg, pid, h.ino)} :
            IF verdict # "yes" THEN Refuse("write", verdict, h.ino, NoName)
            ELSE \E res \in {do_write_buf(Cur, h.ino, h, off, buf, ub)} :
                 /\ Commit(res.s)
                 /\ reply' = [Replied("write", IF res.dead THEN "DEAD" ELSE res.err, h.ino, NoName,
                                      h.ino, inode_to_node(Cur, h.ino), {})
                                EXCEPT !.off = off, !.data = buf]
                 /\ Served
                 /\ ghost' = IF res.err = "" /\ ~ res.dead
                               THEN [ghost EXCEPT !.want = pwrite(@, buf, off)] ELSE ghost
                 /\ UNCHANGED <<cfg, dummy_lookups, kern, handles>>

ovl_setattr(pid, ino, fi, to_set, attr) ==
  /\ Serving
  /\ ino \in KnownInos
  /\ fi = NoHandle \/ (fi \in OpenFiles /\ fi.ino = ino /\ FdPaths(Cur, fi) # {})
  /\ \E verdict \in {checkAuthority(cfg, pid, ino)} :
        IF verdict # "yes" THEN Refuse("setattr", verdict, ino, NoName)
        ELSE \E res \in {do_setattr(Cur, ino, fi, to_set, attr)} :
             /\ Commit(res.s)
             /\ \E st \in {IF res.err # "" THEN [err |-> res.err, attr |-> <<>>]
                            ELSE rpl_stat(res.s, inode_to_node(Cur, ino), fi)} :
                   reply' = [Replied("setattr", st.err, ino, NoName, ino, inode_to_node(Cur, ino), {})
                               EXCEPT !.data = st.attr]
             /\ Served
             /\ ghost' = IF res.err = "" /\ "SIZE" \in to_set
                           THEN [ghost EXCEPT !.want = ftruncate(@, attr.st_size), !.resized = TRUE]
                           ELSE ghost
             /\ UNCHANGED <<cfg, dummy_lookups, kern, handles>>


----------------------------------------------------------------------------
(* File I/O: one regular file "a", on the upper layer or on a lower one.   *)

Plain(n) == [i \in 1..n |-> 1 + (i % 2)]
WithData(img, data) == [img EXCEPT !.ent[<<"a">>].data = data]

\* The file on the upper layer holds what writing the bytes want through the file system
\* has left there; a file on a lower layer holds its bytes as they are.
IOFiles ==
  {[d |-> [U |-> WithData(LayerImage("U", Top("reg", "none"), {}, {}, {}),
                          encode_fd_to_fd(Plain(n), 0, <<>>)),
           L1 |-> EmptyLayer, L2 |-> EmptyLayer],
    want |-> Plain(n)] : n \in 0..MaxUpper}
  \cup
  {[d |-> [U |-> EmptyLayer,
           L1 |-> WithData(LayerImage("L1", Top("reg", "none"), {}, {}, {}), Plain(n)),
           L2 |-> EmptyLayer],
    want |-> Plain(n)] : n \in 0..MaxLower}

InitIO ==
  /\ cfg = Options(TRUE, TRUE, FALSE, IOSteps)
  /\ \E f \in IOFiles : Mounted(f.d) /\ ghost = [GhostInit EXCEPT !.want = f.want]

WriteBufs == {[i \in 1..n |-> v] : n \in 1..MaxWrite, v \in 1..2}

NextIO ==
  \/ \E pid \in Callers, name \in Names : ovl_lookup(pid, FUSE_ROOT_ID, name)
  \/ \E pid \in Callers, ino \in KnownFiles, readonly \in BOOLEAN : ovl_open(pid, ino, readonly)
  \/ \E pid \in Callers, h \in handles : ovl_release(pid, h)
  \/ \E pid \in Callers, ino \in KnownFiles, fi \in {NoHandle} \cup handles :
        ovl_setattr(pid, ino, fi, {"MODE"}, StAttr(1, 0))
  \/ \E pid \in Callers, h \in handles, off \in 0..MaxOffset, buf \in WriteBufs, ub \in Overruns :
        ovl_write_buf(pid, h, off, buf, ub)
  \/ \E pid \in Callers, h \in handles, off \in 0..MaxOffset, size \in 0..MaxRead :
        ovl_read(pid, h, off, size)

SpecIO == InitIO /\ [][NextIO]_vars


\* C4: on a regular file of the upper layer, a read returns for each byte below the file
\* size the value of the most recent write covering it, and zero where nothing was written.
C4_ReadYourWrites ==
  (reply.op = "read" /\ reply.err = "" /\ ghost.disk0["U"].ent[<<"a">>].k = "reg") =>
     \A i \in 1..Len(reply.data) :
        reply.off + i <= Len(ghost.want) => reply.data[i] = ghost.want[reply.off + i]


\* C5: after a lower-layer regular file has been copied up (and nothing has changed its
\* bytes since), a read of its whole range returns exactly the bytes the lower layer holds.
C5_CopyUpKeepsBytes ==
  (/\ reply.op = "read" /\ reply.err = ""
   /\ ghost.disk0["U"].ent[<<"a">>].k = "none" /\ disk["U"].ent[<<"a">>].k = "reg"
   /\ ghost.want = ghost.disk0["L1"].ent[<<"a">>].data
   /\ reply.off = 0 /\ Len(reply.data) = Len(ghost.want)) => reply.data = ghost.want


\* C6: no sequence of requests changes the content, metadata or directory entries of a
\* lower layer.
C6_LowerLayersUntouched ==
  \A i \in DOMAIN LowerLayers : disk[LowerLayers[i]] = ghost.disk0[LowerLayers[i]]


----------------------------------------------------------------------------
(* A mount without an upper layer: two lower layers only.                  *)

ROSteps == 4

RODisks ==
  { \* a directory merged from two lower layers, next to a regular file
    [U |-> EmptyLayer,
     L1 |-> LayerImage("L1", Top("dir", "reg"), {<<"a", "a">>}, {}, {}),
     L2 |-> LayerImage("L2", Top("dir", "none"), {<<"a", "b">>}, {}, {})],
    \* an empty directory and a regular file
    [U |-> EmptyLayer,
     L1 |-> LayerImage("L1", Top("dir", "none"), {}, {}, {}),
     L2 |-> LayerImage("L2", Top("none", "reg"), {}, {}, {})],
    \* a single regular file
    [U |-> EmptyLayer,
     L1 |-> LayerImage("L1", Top("reg", "none"), {}, {}, {}),
     L2 |-> EmptyLayer] }

InitRO ==
  /\ cfg \in {Options(FALSE, t, FALSE, ROSteps) : t \in BOOLEAN}
  /\ \E d \in RODisks : Mounted(d)
  /\ ghost = GhostInit

NextRO ==
  \/ \E pid \in Callers, parent \in NameDirs, name \in Names : ovl_lookup(pid, parent, name)
  \/ \E pid \in Callers, parent \in NameDirs, name \in Names : ovl_create(pid, parent, name)
  \/ \E pid \in Callers, ino \in KnownFiles, readonly \in BOOLEAN : ovl_open(pid, ino, readonly)
  \/ \E pid \in Callers, h \in handles : ovl_release(pid, h)
  \/ \E pid \in Callers, parent \in NameDirs, name \in Names : ovl_mkdir(pid, parent, name)
  \/ \E pid \in Callers, parent \in NameDirs, name \in Names : ovl_unlink(pid, parent, name)
  \/ \E pid \in Callers, parent \in NameDirs, name \in Names : ovl_rmdir(pid, parent, name)
  \/ \E pid \in Callers, parent \in NameDirs, name \in Names,
        newparent \in NameDirs, newname \in Names, flags \in RenameFlags :
        ovl_rename(pid, parent, name, newparent, newname, flags)
  \/ \E pid \in Callers, ino \in KnownInos \ {FUSE_ROOT_ID}, fi \in {NoHandle} \cup handles :
        ovl_setattr(pid, ino, fi, {"MODE"}, StAttr(1, 0))

SpecRO == InitRO /\ [][NextRO]_vars



----------------------------------------------------------------------------
(* The access gate: one caller under different process tables.             *)

GateSteps == 3

Proc(comm, ppid) == [comm |-> comm, ppid |-> ppid]
bash == <<"b", "a", "s", "h">>
firejail == <<"f", "i", "r", "e", "j", "a", "i", "l">>
tmux_server == <<"t", "m", "u", "x", " ", "s">>

\* /proc as the caller's requests find it: the caller is 5, the manager 3
GateProcs ==
  { \* a shell below init
    (5 :> Proc(bash, InitPid)),
    \* a shell below a shell below kthreadd
    (5 :> Proc(bash, 4)) @@ (4 :> Proc(bash, KthreaddPid)),
    \* a shell below the manager
    (5 :> Proc(bash, 3)),
    \* a shell below firejail below init
    (5 :> Proc(bash, 4)) @@ (4 :> Proc(firejail, InitPid)),
    \* a shell whose parent has gone
    (5 :> Proc(bash, 4)),
    \* a process with a space in its name, below init
    (5 :> Proc(tmux_server, InitPid)),
    \* a shell below a process with a space in its name, below init
    (5 :> Proc(bash, 4)) @@ (4 :> Proc(tmux_server, InitPid)) }

GateDisk ==
  [U |-> LayerImage("U", Top("dir", "reg"), {<<"a", "a">>}, {}, {}),
   L1 |-> LayerImage("L1", Top("dir", "none"), {<<"a", "b">>}, {}, {}),
   L2 |-> EmptyLayer]

InitGate ==
  /\ cfg \in {[Options(TRUE, TRUE, FALSE, GateSteps)
                 EXCEPT !.procs = p, !.manage = 3, !.callers = {5}] :
              p \in GateProcs}
  /\ Mounted(GateDisk)
  /\ ghost = GhostInit

NextGate ==
  \/ \E pid \in Callers, parent \in KnownDirs, name \in Names : ovl_lookup(pid, parent, name)
  \/ \E pid \in Callers, ino \in KnownDirs : ovl_opendir(pid, ino)
  \/ \E pid \in Callers, h \in handles : ovl_readdir(pid, h)
  \/ \E pid \in Callers, h \in handles : ovl_releasedir(pid, h)
  \/ \E pid \in Callers, parent \in KnownDirs, name \in Names : ovl_mkdir(pid, parent, name)
  \/ \E pid \in Callers, parent \in KnownDirs, name \in Names : ovl_unlink(pid, parent, name)
  \/ \E pid \in Callers, ino \in KnownFiles, fi \in {NoHandle} : ovl_setattr(pid, ino, fi, {"MODE"}, StAttr(1, 0))

SpecGate == InitGate /\ [][NextGate]_vars

\* C10: a request on a non-root inode from a caller whose parent chain does not lead to
\* pid 0, kthreadd, the manager or a process with a trusted name prefix before it leads to
\* init or to a process /proc does not show is replied not-found and changes neither the
\* node graph, the inode table nor any layer.
C10_GateFollowsParents ==
  [][LET RECURSIVE Trusted(_)
         Trusted(pid) ==
           IF pid = IdlePid THEN TRUE
           ELSE IF pid = InitPid THEN FALSE
           ELSE IF pid = KthreaddPid \/ pid = cfg.manage THEN TRUE
           ELSE IF pid \notin DOMAIN cfg.procs THEN FALSE
           ELSE IF \E t \in TrustedPrefixes : strncmp_eq(cfg.procs[pid].comm, t) THEN TRUE
           ELSE Trusted(cfg.procs[pid].ppid)
     IN (Served /\ reply'.parent # FUSE_ROOT_ID
         /\ \E pid \in Callers : ~ Trusted(pid)) =>
          (reply'.err = "ENOENT" /\ nodes' = nodes /\ inodes' = inodes /\ disk' = disk)]_vars


----------------------------------------------------------------------------
(* The sandbox flag: isBoxRunning is set by SIGUSR2 and cleared by SIGUSR1. *)
(* cfg.pidns[pid] is what /proc/<pid>/ns/pid links to, cfg.hostns what the *)
(* link of the file system process itself reads, cfg.mountdir the          *)
(* directory above the mountpoint without its leading slash.               *)

BoxSteps == 3

\* checkPath: 0 for the directory that holds the mountpoint
checkPath(c, path) == IF path = c.mountdir THEN 0 ELSE 1

\* checkAccess (req, lo, nodePath) for a caller pid: 0 rejects, 1 accepts. guestpid is
\* not initialised, so when the link of the caller cannot be read, stale is what the
\* buffer happens to hold.
checkAccess(c, pid, nodePath, stale) ==
  LET guestpid == IF pid \in DOMAIN c.pidns THEN c.pidns[pid] ELSE stale
  IN IF guestpid = c.hostns THEN (IF c.isBoxRunning THEN 0 ELSE 1)
     ELSE checkPath(c, nodePath)

Signalled(flag) ==
  /\ cfg' = [cfg EXCEPT !.isBoxRunning = flag]
  /\ UNCHANGED <<disk, work, wdc, nextino, can_mknod, nodes, inodes, dummy_lookups,
                 kern, handles, reply, steps, ghost, thr>>

SIGUSR1_handle == Signalled(FALSE)
SIGUSR2_handle == Signalled(TRUE)

\* the caller 5 is a shell below the manager 3, in the PID namespace of the file system
InitBox ==
  /\ cfg \in {[Options(TRUE, t, FALSE, BoxSteps)
                 EXCEPT !.procs = (5 :> Proc(bash, 3)), !.manage = 3, !.callers = {5},
                        !.pidns = (5 :> "host")] : t \in BOOLEAN}
  /\ Mounted(GateDisk)
  /\ ghost = GhostInit

NextBox ==
  \/ SIGUSR1_handle
  \/ SIGUSR2_handle
  \/ \E pid \in Callers, parent \in KnownDirs, name \in Names : ovl_lookup(pid, parent, name)
  \/ \E pid \in Callers, ino \in KnownDirs : ovl_opendir(pid, ino)
  \/ \E pid \in Callers, h \in handles : ovl_readdir(pid, h)
  \/ \E pid \in Callers, h \in handles : ovl_releasedir(pid, h)
  \/ \E pid \in Callers, parent \in KnownDirs, name \in Names : ovl_mkdir(pid, parent, name)

SpecBox == InitBox /\ [][NextBox]_vars

\* C11: while the sandbox-running flag is set, a request from a caller in the PID
\* namespace of the file system process is rejected (checkAccess says 0 and the reply is
\* not-found); while the flag is clear checkAccess says 1 for it.
C11_BoxFlagGates ==
  [][Served =>
       \A pid \in Callers : \A stale \in {"host", "junk"} :
          /\ checkAccess(cfg, pid, RootPath, stale) = (IF cfg.isBoxRunning THEN 0 ELSE 1)
          /\ cfg.isBoxRunning => reply'.err = "ENOENT"]_vars


----------------------------------------------------------------------------
(* Extended attributes. *)

\* the file behind a node: its staging file in the workdir when the node is hidden
NodeEnt(s, n) ==
  IF n.hidden THEN (IF n.hkey \in DOMAIN s.w THEN s.w[n.hkey].e ELSE NoEnt)
  ELSE IF n.layer = NoLayer THEN NoEnt ELSE EntAt(s, n.layer, n.path)

SetNodeEnt(s, n, e) ==
  IF n.hidden THEN [s EXCEPT !.w[n.hkey].e = e] ELSE [s EXCEPT !.d[n.layer].ent[n.path] = e]

\* strlen (name) + 1 with one unit for each dot-terminated part
xattr_len(name) == Len(name)

RECURSIVE list_len(_)
list_len(buf) == IF buf = <<>> THEN 0 ELSE xattr_len(Head(buf)) + list_len(Tail(buf))

RECURSIVE names_of(_)
\* the names of a set in the order the backing file system lists them
names_of(T) == IF T = {} THEN <<>>
               ELSE LET x == CHOOSE y \in T : TRUE IN <<x>> \o names_of(T \ {x})

\* llistxattr (path, buf, size): every attribute the file has, the origin mark included
sys_listxattr(e, size) ==
  LET all == names_of(DOMAIN e.xa \cup (IF e.org # <<>> THEN {ORIGIN_XATTR} ELSE {}))
  IN IF e.k = "none" THEN [err |-> "ENOENT", buf |-> <<>>, ret |-> 0]
     ELSE IF size = 0 THEN [err |-> "", buf |-> <<>>, ret |-> list_len(all)]
     ELSE IF list_len(all) > size THEN [err |-> "ERANGE", buf |-> <<>>, ret |-> 0]
     ELSE [err |-> "", buf |-> all, ret |-> list_len(all)]

RECURSIVE filter_names(_)
filter_names(buf) ==
  IF buf = <<>> THEN <<>>
  ELSE IF can_access_xattr(Head(buf)) THEN <<Head(buf)>> \o filter_names(Tail(buf))
  ELSE filter_names(Tail(buf))

\* filter_xattrs_list (buf, len): with no buffer the length comes back as it is
filter_xattrs_list(buf, len, size) ==
  IF size = 0 THEN [buf |-> <<>>, ret |-> len]
  ELSE [buf |-> filter_names(buf), ret |-> list_len(filter_names(buf))]

sys_getxattr(e, name) ==
  IF e.k = "none" THEN [err |-> "ENOENT", v |-> <<>>]
  ELSE IF name = ORIGIN_XATTR /\ e.org # <<>> THEN [err |-> "", v |-> e.org]
  ELSE IF name \in DOMAIN e.xa THEN [err |-> "", v |-> <<e.xa[name]>>]
  ELSE [err |-> "ENODATA", v |-> <<>>]

XattrReply(s, err, buf) == [s |-> s, err |-> err, buf |-> buf, len |-> Len(buf)]

do_listxattr(s, ino, size) ==
  LET node == inode_to_node(s, ino)
  IN IF s.c.disable_xattrs THEN XattrReply(s, "ENOSYS", <<>>)
     ELSE IF node = Nil THEN XattrReply(s, "ENOENT", <<>>)
     ELSE LET r == sys_listxattr(NodeEnt(s, s.n[node]), size)
              f == filter_xattrs_list(r.buf, r.ret, size)
          IN IF r.err # "" THEN XattrReply(s, r.err, <<>>)
             ELSE [s |-> s, err |-> "", buf |-> f.buf, len |-> f.ret]

do_getxattr(s, ino, name) ==
  LET node == inode_to_node(s, ino)
  IN IF s.c.disable_xattrs THEN XattrReply(s, "ENOSYS", <<>>)
     ELSE IF ~ can_access_xattr(name) THEN XattrReply(s, "ENODATA", <<>>)
     ELSE IF node = Nil \/ s.n[node].whiteout THEN XattrReply(s, "ENOENT", <<>>)
     ELSE LET r == sys_getxattr(NodeEnt(s, s.n[node]), name)
          IN XattrReply(s, r.err, r.v)

\* direct_setxattr with flags 0
direct_setxattr(s, n, name, value) ==
  LET e == NodeEnt(s, n)
  IN IF e.k = "none" THEN Fail(s, "ENOENT")
     ELSE Ok(SetNodeEnt(s, n, [e EXCEPT !.xa = (name :> value) @@ @]))

direct_removexattr(s, n, name) ==
  LET e == NodeEnt(s, n)
  IN IF e.k = "none" THEN Fail(s, "ENOENT")
     ELSE IF name = ORIGIN_XATTR /\ e.org # <<>> THEN Ok(SetNodeEnt(s, n, [e EXCEPT !.org = <<>>]))
     ELSE IF name \in DOMAIN e.xa
       THEN Ok(SetNodeEnt(s, n, [e EXCEPT !.xa = [x \in DOMAIN @ \ {name} |-> @[x]]]))
     ELSE Fail(s, "ENODATA")

do_setxattr(s, ino, name, value) ==
  LET node == inode_to_node(s, ino)
  IN IF s.c.disable_xattrs THEN Fail(s, "ENOSYS")
     ELSE IF has_prefix(name, PRIVILEGED_XATTR_PREFIX) \/ has_prefix(name, XATTR_PREFIX)
             \/ has_prefix(name, XATTR_CONTAINERS_PREFIX) THEN Fail(s, "EPERM")
     ELSE IF node = Nil \/ s.n[node].whiteout THEN Fail(s, "ENOENT")
     ELSE Then(get_node_up(s, node), LAMBDA u :
            IF u.err # "" THEN u ELSE direct_setxattr(u.s, u.s.n[node], name, value))

\* the names a caller may not touch are let through here
do_removexattr(s, ino, name) ==
  LET node == inode_to_node(s, ino)
  IN IF node = Nil \/ s.n[node].whiteout THEN Fail(s, "ENOENT")
     ELSE Then(get_node_up(s, node), LAMBDA u :
            IF u.err # "" THEN u ELSE direct_removexattr(u.s, u.s.n[node], name))


XattrDone(op, res, ino, name, size) ==
  /\ Commit(res.s)
  /\ reply' = [Replied(op, res.err, ino, name, ino, inode_to_node(Cur, ino), {})
                 EXCEPT !.off = size]
  /\ Served
  /\ UNCHANGED <<cfg, dummy_lookups, kern, handles, ghost>>

\* size = 0 asks for the length only: it is replied in data as <<len>>
ovl_listxattr(pid, ino, size) ==
  /\ Serving
  /\ ino \in KnownInos
  /\ \E verdict \in {checkAuthority(cfg, pid, ino)} :
        IF verdict # "yes" THEN Refuse("listxattr", verdict, ino, NoName)
        ELSE \E res \in {do_listxattr(Cur, ino, size)} :
             /\ Commit(res.s)
             /\ reply' = [Replied("listxattr", res.err, ino, NoName, ino, inode_to_node(Cur, ino), {})
                            EXCEPT !.off = size,
                                   !.data = IF res.err # "" THEN <<>>
                                            ELSE IF size = 0 THEN <<res.len>> ELSE res.buf]
             /\ Served
             /\ UNCHANGED <<cfg, dummy_lookups, kern, handles, ghost>>

ovl_getxattr(pid, ino, name, size) ==
  /\ Serving
  /\ ino \in KnownInos
  /\ \E verdict \in {checkAuthority(cfg, pid, ino)} :
        IF verdict # "yes" THEN Refuse("getxattr", verdict, ino, name)
        ELSE \E res \in {do_getxattr(Cur, ino, name)} :
             /\ Commit(res.s)
             /\ reply' = [Replied("getxattr", res.err, ino, name, ino, inode_to_node(Cur, ino), {})
                            EXCEPT !.off = size,
                                   !.data = IF res.err # "" THEN <<>>
                                            ELSE IF size = 0 THEN <<Len(res.buf)>> ELSE res.buf]
             /\ Served
             /\ UNCHANGED <<cfg, dummy_lookups, kern, handles, ghost>>

ovl_setxattr(pid, ino, name, value) ==
  /\ Serving
  /\ ino \in KnownInos
  /\ \E verdict \in {checkAuthority(cfg, pid, ino)} :
        IF verdict # "yes" THEN Refuse("setxattr", verdict, ino, name)
        ELSE \E res \in {do_setxattr(Cur, ino, name, value)} : XattrDone("setxattr", res, ino, name, 0)

ovl_removexattr(pid, ino, name) ==
  /\ Serving
  /\ ino \in KnownInos
  /\ \E verdict \in {checkAuthority(cfg, pid, ino)} :
        IF verdict # "yes" THEN Refuse("removexattr", verdict, ino, name)
        ELSE \E res \in {do_removexattr(Cur, ino, name)} : XattrDone("removexattr", res, ino, name, 0)

XattrSteps == 3
MaxXattrBuf == 6
XattrNames == {<<"user", "x">>, ORIGIN_XATTR, <<"trusted", "overlay", "origin">>,
               <<"user", "containers", "y">>}

\* an upper file a and a lower file b, each with an attribute of its own and the origin
\* mark the kernel's overlay leaves behind
XattrDisk ==
  LET xa == (<<"user", "x">> :> 1) @@ (<<"trusted", "overlay", "origin">> :> 1)
      u == LayerImage("U", [n \in Names |-> IF n = "a" THEN "reg" ELSE "none"], {}, {}, {})
      l == LayerImage("L1", [n \in Names |-> IF n = "b" THEN "reg" ELSE "none"], {}, {}, {})
  IN [U |-> [u EXCEPT !.ent[<<"a">>].xa = xa, !.ent[<<"a">>].org = <<"a">>],
      L1 |-> [l EXCEPT !.ent[<<"b">>].xa = xa],
      L2 |-> EmptyLayer]

InitXattr ==
  /\ cfg \in {[Options(TRUE, TRUE, FALSE, XattrSteps) EXCEPT !.disable_xattrs = x] : x \in BOOLEAN}
  /\ Mounted(XattrDisk)
  /\ ghost = GhostInit

NextXattr ==
  \/ \E pid \in Callers, name \in Names : ovl_lookup(pid, FUSE_ROOT_ID, name)
  \/ \E pid \in Callers, ino \in KnownInos, size \in {0, MaxXattrBuf} : ovl_listxattr(pid, ino, size)
  \/ \E pid \in Callers, ino \in KnownInos, name \in XattrNames, size \in {0, MaxXattrBuf} :
        ovl_getxattr(pid, ino, name, size)
  \/ \E pid \in Callers, ino \in KnownInos, name \in XattrNames, v \in 1..2 :
        ovl_setxattr(pid, ino, name, v)
  \/ \E pid \in Callers, ino \in KnownInos, name \in XattrNames : ovl_removexattr(pid, ino, name)

SpecXattr == InitXattr /\ [][NextXattr]_vars

\* C12: with extended attributes enabled, for every attribute name that begins with
\* user.fuseoverlayfs. or trusted.overlay.: a listing never holds it, getxattr replies
\* ENODATA, and setxattr and removexattr reply EPERM and change no file of any layer.
C12_PrivateXattrs ==
  [][(Served /\ ~ cfg.disable_xattrs) =>
       /\ (reply'.op = "listxattr" /\ reply'.off > 0)
             => \A i \in DOMAIN reply'.data : can_access_xattr(reply'.data[i])
       /\ (reply'.op = "getxattr" /\ ~ can_access_xattr(reply'.name)) => reply'.err = "ENODATA"
       /\ (reply'.op \in {"setxattr", "removexattr"} /\ ~ can_access_xattr(reply'.name))
             => reply'.err = "EPERM" /\ disk' = disk]_vars


----------------------------------------------------------------------------
(* The codec on its own: a buffer of plain bytes and a block number are     *)
(* drawn, the buffer is encoded and decoded again, or written as one block  *)
(* of the upper file a and read back. reply.data is the buffer, reply.off   *)
(* the block number, reply.op how far the buffer has come, ghost.want the   *)
(* plain bytes.                                                             *)

MaxCodec == 3
MaxBlockNum == 2

Bytes == 0..(ByteMod - 1)
\* every short buffer, and some that are longer than one chunk of flipBytes
CodecBufs ==
  UNION {[1..n -> Bytes] : n \in 1..MaxCodec}
  \cup {[i \in 1..n |-> (i * k) % ByteMod] : n \in {FlipChunk, FlipChunk + 1, FlipChunk + 2}, k \in 1..2}

InitCodec ==
  /\ cfg = Options(TRUE, TRUE, FALSE, 2)
  /\ \E s \in {MountState(cfg, [U |-> LayerImage("U", Top("reg", "none"), {}, {}, {}),
                                 L1 |-> EmptyLayer, L2 |-> EmptyLayer])} :
       /\ disk = s.d /\ work = s.w /\ wdc = s.wdc /\ nextino = s.nx /\ can_mknod = s.mk
       /\ nodes = s.n /\ inodes = s.i /\ dummy_lookups = s.dl
  /\ kern = << >> /\ handles = {} /\ steps = 0 /\ thr = NoThr
  /\ \E buf \in CodecBufs, n \in 0..MaxBlockNum :
       /\ reply = [NoReply EXCEPT !.op = "plain", !.data = buf, !.off = n]
       /\ ghost = [GhostInit EXCEPT !.want = buf]

Staged(from, to, data) ==
  /\ reply.op = from
  /\ reply' = [reply EXCEPT !.op = to, !.data = data]
  /\ UNCHANGED <<cfg, disk, work, wdc, nextino, can_mknod, nodes, inodes, dummy_lookups,
                 kern, handles, steps, ghost, thr>>

CodecBlockEncode == Staged("plain", "block", blockEncode(reply.data, reply.off))
CodecBlockDecode == Staged("block", "block_decoded", blockDecode(reply.data, reply.off))
CodecStreamEncode == Staged("plain", "stream", streamEncode(reply.data, reply.off))
CodecStreamDecode == Staged("stream", "stream_decoded", streamDecode(reply.data, reply.off))

\* writeOneBlock of the buffer as block reply.off of the file
CodecWrite ==
  /\ reply.op = "plain"
  /\ Len(reply.data) <= gBlockSize
  /\ reply' = [reply EXCEPT !.op = "written"]
  /\ disk' = [disk EXCEPT !.U.ent[<<"a">>].data =
                            writeOneBlock(@, reply.off * gBlockSize, reply.data)]
  /\ UNCHANGED <<cfg, work, wdc, nextino, can_mknod, nodes, inodes, dummy_lookups,
                 kern, handles, steps, ghost, thr>>

\* readOneBlock of the same block
CodecRead ==
  Staged("written", "read",
         readOneBlock(disk.U.ent[<<"a">>].data, reply.off * gBlockSize, gBlockSize))

NextCodec ==
  \/ CodecBlockEncode
  \/ CodecBlockDecode
  \/ CodecStreamEncode
  \/ CodecStreamDecode
  \/ CodecWrite
  \/ CodecRead

SpecCodec == InitCodec /\ [][NextCodec]_vars

----------------------------------------------------------------------------
(* rmdir of a directory that is not empty. *)

\* C14 as stated: rmdir(D, X) of a directory succeeds only if the merged directory X has
\* no visible entry; if it has one the reply is ENOTEMPTY and the node graph and the
\* layers are as they were.
C14_RmdirNotEmptyChangesNothing ==
  [][\A parent \in KnownDirs, name \in Names :
       (Served /\ reply'.op = "rmdir" /\ reply'.parent = parent /\ reply'.name = name
        /\ KernelHolds(parent, name)
        /\ nodes[child_lookup(Cur, inode_to_node(Cur, parent), name)].dirp) =>
         LET c == child_lookup(Cur, inode_to_node(Cur, parent), name)
             visible == MergedNames(Cur, nodes[c].path, nodes[c].last_layer)
         IN /\ reply'.err = "" => visible = {}
            /\ visible # {} => /\ reply'.err = "ENOTEMPTY"
                               /\ disk' = disk /\ work' = work
                               /\ nodes' = nodes /\ inodes' = inodes]_vars

\* C14 (amended): rmdir(D, X) of a directory succeeds only if the merged directory X has
\* no visible entry; if it has one the reply is ENOTEMPTY, the layers and the workdir are
\* as they were, and no node that is not a whiteout and no inode record is removed or
\* changed except in what the reload of X fills in: children, loaded and last_layer of a
\* node, and the nodes the reload adds to the list of an inode record.
C14_RmdirNotEmptyKeepsEntries ==
  [][\A parent \in KnownDirs, name \in Names :
       (Served /\ reply'.op = "rmdir" /\ reply'.parent = parent /\ reply'.name = name
        /\ KernelHolds(parent, name)
        /\ nodes[child_lookup(Cur, inode_to_node(Cur, parent), name)].dirp) =>
         LET c == child_lookup(Cur, inode_to_node(Cur, parent), name)
             visible == MergedNames(Cur, nodes[c].path, nodes[c].last_layer)
         IN /\ reply'.err = "" => visible = {}
            /\ visible # {} => reply'.err = "ENOTEMPTY"
            /\ reply'.err = "ENOTEMPTY" =>
                 /\ disk' = disk /\ work' = work
                 /\ \A k \in DOMAIN nodes : ~ nodes[k].whiteout =>
                      /\ k \in DOMAIN nodes'
                      /\ [nodes'[k] EXCEPT !.children = {}, !.loaded = FALSE, !.last_layer = NoLayer]
                           = [nodes[k] EXCEPT !.children = {}, !.loaded = FALSE, !.last_layer = NoLayer]
                      /\ {x \in nodes[k].children : ~ nodes[x].whiteout} \subseteq nodes'[k].children
                 /\ \A i \in DOMAIN inodes :
                      /\ i \in DOMAIN inodes'
                      /\ [inodes'[i] EXCEPT !.list = <<>>] = [inodes[i] EXCEPT !.list = <<>>]
                      /\ \A j \in DOMAIN inodes[i].list :
                            \E k \in DOMAIN inodes'[i].list : inodes'[i].list[k] = inodes[i].list[j]]_vars

\* rmdir of a directory with a visible entry on a lower layer has replied ENOTEMPTY
C14_Witness ==
  /\ reply.op = "rmdir" /\ reply.err = "ENOTEMPTY"
  /\ reply.parent \in KnownDirs
  /\ LET c == child_lookup(Cur, inode_to_node(Cur, reply.parent), reply.name)
     IN /\ c # Nil /\ nodes[c].dirp
        /\ \E nm \in MergedNames(Cur, nodes[c].path, nodes[c].last_layer) :
             \E i \in DOMAIN LowerLayers : EntAt(Cur, LowerLayers[i], nodes[c].path \o <<nm>>).k # "none"


----------------------------------------------------------------------------
(* rename with RENAME_NOREPLACE onto a name that exists. *)

\* C15: a rename of a file with RENAME_NOREPLACE whose destination name a lookup finds (in the upper
\* layer or in a lower layer, cached among the children of its directory or not) replies
\* EEXIST, and lookups of the source and of the destination find afterwards what they
\* found before.
C15_NoReplaceKeepsDestination ==
  [][\A pid \in Callers, parent \in NameDirs, newparent \in NameDirs, name \in Names, newname \in Names :
       (/\ ovl_rename(pid, parent, name, newparent, newname, {"NOREPLACE"})
        /\ ~ nodes[HeldAt(parent, name).node].dirp
        /\ lookup_result(Cur, newparent, newname).ino # 0) =>
          /\ reply'.err = "EEXIST"
          /\ lookup_result(Cur', newparent, newname).ino = lookup_result(Cur, newparent, newname).ino
          /\ lookup_result(Cur', parent, name).ino = lookup_result(Cur, parent, name).ino]_vars


----------------------------------------------------------------------------
(* ovl_mknod, ovl_symlink, ovl_link *)

\* mknodat (workdir, key, mode, rdev): a device node needs the privilege for it
sys_mknodat(s, key, kind) ==
  IF kind = "chr0" /\ ~ s.mk THEN Fail(s, "EPERM") ELSE Ok(staged(s, key, Ent(kind, 0), FALSE))

\* linkat (upper, from, upper, to)
sys_linkat(s, from, to) ==
  LET e == EntAt(s, Upper, from)
  IN IF e.k = "none" THEN Fail(s, "ENOENT")
     ELSE IF e.k = "dir" THEN Fail(s, "EPERM")
     ELSE IF ~ DirExists(s, Upper, ParentOf(to)) THEN Fail(s, "ENOENT")
     ELSE IF EntAt(s, Upper, to).k # "none" THEN Fail(s, "EEXIST")
     ELSE Ok([s EXCEPT !.d[Upper] = PutEnt(@, to, e)])

\* the tail the three share: rpl_stat, node->ino->lookups++, fuse_reply_entry
reply_entry(s, node) ==
  IF ~ node_stat_ok(s, node) THEN EntryFailed(s, "ENOENT")
  ELSE [s |-> ino_lookups_inc(s, node), err |-> "", ino |-> s.n[node].ino, node |-> node]

\* ovl_mknod after the gate and the check of the name
do_mknod(s, parent, name, kind) ==
  Then(do_lookup_file(s, parent, name), LAMBDA l :
    IF l.r # Nil /\ ~ l.s.n[l.r].whiteout THEN EntryFailed(l.s, "EEXIST")
    ELSE Then(inode_to_node(l.s, parent), LAMBDA p :
         Then(get_node_up(l.s, p), LAMBDA pu :
           IF pu.err # "" THEN EntryFailed(pu.s, pu.err)
           ELSE Then(get_next_wd_counter(pu.s), LAMBDA c :
                Then(sys_mknodat(c.s, c.r, kind), LAMBDA m :
                  IF m.err # "" THEN EntryFailed(m.s, m.err)
                  ELSE Then(m.s.n[p].path \o <<name>>, LAMBDA path :
                       Then(rename_from_workdir(m.s, c.r, path), LAMBDA r :
                         IF r.err # "" THEN EntryFailed(unstaged(r.s, c.r), r.err)
                         ELSE Then(make_ovl_node(r.s, path, Upper, name, 0, FALSE, p), LAMBDA mk :
                              Then(insert_node(mk.s, p, mk.r, TRUE), LAMBDA i :
                                reply_entry(delete_whiteout(i.s, path), i.r))))))))))

\* direct_symlinkat: the link is made in the workdir and renamed into place
direct_symlinkat(s, path) ==
  Then(get_next_wd_counter(s), LAMBDA c :
  Then(staged(unstaged(c.s, c.r), c.r, Ent("lnk", 0), FALSE), LAMBDA s1 :
  Then(rename_from_workdir(s1, c.r, path), LAMBDA r :
    IF r.err # "" THEN Fail(unstaged(r.s, c.r), r.err) ELSE r)))

\* ovl_symlink after the gate and the check of the name
do_symlink(s, parent, name) ==
  Then(inode_to_node(s, parent), LAMBDA p :
    IF s.n[p].whiteout THEN EntryFailed(s, "ENOENT")
    ELSE Then(get_node_up(s, p), LAMBDA pu :
      IF pu.err # "" THEN EntryFailed(pu.s, pu.err)
      ELSE Then(do_lookup_file(pu.s, parent, name), LAMBDA l :
        IF l.r # Nil /\ ~ l.s.n[l.r].whiteout THEN EntryFailed(l.s, "EEXIST")
        ELSE LET need_delete_whiteout == ~ (l.s.n[p].loaded /\ l.r = Nil)
                 path == l.s.n[p].path \o <<name>>
             IN Then(direct_symlinkat(l.s, path), LAMBDA d :
                  IF d.err # "" THEN EntryFailed(d.s, "ENOMEM")
                  ELSE Then(make_ovl_node(IF need_delete_whiteout THEN delete_whiteout(d.s, path)
                                          ELSE d.s, path, Upper, name, 0, FALSE, p), LAMBDA mk :
                       Then(insert_node(mk.s, p, mk.r, TRUE), LAMBDA i :
                         reply_entry(i.s, i.r)))))))

\* ovl_link after the gate and the check of the name
do_link(s, ino, newparent, newname) ==
  Then(inode_to_node(s, ino), LAMBDA node :
    IF node = Nil \/ s.n[node].whiteout THEN EntryFailed(s, "ENOENT")
    ELSE Then(get_node_up(s, node), LAMBDA nu :
      IF nu.err # "" THEN EntryFailed(nu.s, nu.err)
      ELSE Then(inode_to_node(nu.s, newparent), LAMBDA np :
        IF nu.s.n[np].whiteout THEN EntryFailed(nu.s, "ENOENT")
        ELSE Then(do_lookup_file(nu.s, newparent, newname), LAMBDA dest :
          IF dest.r # Nil /\ ~ dest.s.n[dest.r].whiteout THEN EntryFailed(dest.s, "EEXIST")
          ELSE Then(get_node_up(dest.s, np), LAMBDA pu :
            IF pu.err # "" THEN EntryFailed(pu.s, pu.err)
            ELSE Then(pu.s.n[np].path \o <<newname>>, LAMBDA path :
                 Then(get_next_wd_counter(delete_whiteout(pu.s, path)), LAMBDA c :
                 Then(sys_linkat(c.s, c.s.n[node].path, path), LAMBDA lk :
                   IF lk.err # "" THEN EntryFailed(lk.s, lk.err)
                   ELSE Then(make_ovl_node(lk.s, path, Upper, newname, lk.s.n[node].tmp_ino,
                                           FALSE, np), LAMBDA mk :
                        Then(insert_node(mk.s, np, mk.r, TRUE), LAMBDA i :
                          reply_entry(i.s, i.r)))))))))))

\* what the three do with the result; ovl_mknod alone tells the kernel of the change
EntryDone(op, res, parent, name, made) ==
  /\ KernRef(kern, res.ino) < MaxLookups
  /\ Commit(res.s)
  /\ kern' = IF res.ino # 0 THEN KernAdd(kern, res.ino) ELSE kern
  /\ reply' = [Replied(op, res.err, parent, name, res.ino, res.node, {})
                 EXCEPT !.inval = IF op = "mknod" /\ res.err = ""
                                    THEN notify_inval(res.s, {parent}) ELSE {}]
  /\ Served
  /\ ghost' = IF res.err = "" THEN Remade(ghost, {made}) ELSE ghost
  /\ UNCHANGED <<cfg, handles>>

MknodKinds == {"reg", "fifo", "chr0"}

ovl_mknod(pid, parent, name, kind) ==
  /\ Serving
  /\ \E verdict \in {checkAuthority(cfg, pid, parent)} :
        IF verdict # "yes" THEN Refuse("mknod", verdict, parent, name)
        ELSE IF name_too_long(cfg, name) THEN NameTooLong("mknod", parent, name)
        ELSE \E res \in {do_mknod(Cur, parent, name, kind)} :
                EntryDone("mknod", res, parent, name, PathOf(parent, name))

ovl_symlink(pid, parent, name) ==
  /\ Serving
  /\ \E verdict \in {checkAuthority(cfg, pid, parent)} :
        IF verdict # "yes" THEN Refuse("symlink", verdict, parent, name)
        ELSE IF name_too_long(cfg, name) THEN NameTooLong("symlink", parent, name)
        ELSE \E res \in {do_symlink(Cur, parent, name)} :
                EntryDone("symlink", res, parent, name, PathOf(parent, name))

ovl_link(pid, ino, newparent, newname) ==
  /\ Serving
  /\ ino \in KnownFiles
  /\ \E verdict \in {checkAuthority(cfg, pid, ino)} :
        IF verdict # "yes" THEN Refuse("link", verdict, newparent, newname)
        ELSE IF name_too_long(cfg, newname) THEN NameTooLong("link", newparent, newname)
        ELSE \E res \in {do_link(Cur, ino, newparent, newname)} :
                EntryDone("link", res, newparent, newname, PathOf(newparent, newname))


----------------------------------------------------------------------------
(* The name specification: the handlers that make a name, over file        *)
(* systems that report different limits for the length of a name.          *)

NameSteps == 3

NameOptions ==
  {[Options(TRUE, TRUE, FALSE, NameSteps) EXCEPT !.f_namemax = m, !.statfs_ok = ok] :
     m \in {WHITEOUT_MAX_LEN, WHITEOUT_MAX_LEN + 1, WHITEOUT_MAX_LEN + 2, DefaultNameMax},
     ok \in BOOLEAN}

InitName ==
  /\ cfg \in NameOptions
  /\ Mounted([U |-> LayerImage("U", NoTop, {}, {}, {}),
              L1 |-> LayerImage("L1", Top("none", "reg"), {}, {}, {}),
              L2 |-> EmptyLayer])
  /\ ghost = GhostInit

NextName ==
  \/ \E pid \in Callers, parent \in NameDirs, name \in Names : ovl_lookup(pid, parent, name)
  \/ \E pid \in Callers, parent \in NameDirs, name \in Names : ovl_create(pid, parent, name)
  \/ \E pid \in Callers, parent \in NameDirs, name \in Names, kind \in MknodKinds :
        ovl_mknod(pid, parent, name, kind)
  \/ \E pid \in Callers, parent \in NameDirs, name \in Names : ovl_mkdir(pid, parent, name)
  \/ \E pid \in Callers, parent \in NameDirs, name \in Names : ovl_symlink(pid, parent, name)
  \/ \E pid \in Callers, ino \in KnownFiles, newparent \in NameDirs, newname \in Names :
        ovl_link(pid, ino, newparent, newname)
  \/ \E pid \in Callers, parent \in NameDirs, name \in Names,
        newparent \in NameDirs, newname \in Names, flags \in RenameFlags :
        ovl_rename(pid, parent, name, newparent, newname, flags)

SpecName == InitName /\ [][NextName]_vars

\* C16: when the file system below reports its limit f_namemax, create, mknod, mkdir,
\* symlink, link (new name) and rename (new name) reply ENAMETOOLONG exactly when the
\* name is longer than f_namemax - 4; a name of exactly f_namemax - 4 bytes is not
\* refused for its length.
C16_NameLimit ==
  [][cfg.statfs_ok =>
      \A pid \in Callers, parent \in NameDirs, name \in Names :
        /\ \A op \in {"create", "mknod", "mkdir", "symlink"} :
             (\/ op = "create" /\ ovl_create(pid, parent, name)
              \/ op = "mknod" /\ \E kind \in MknodKinds : ovl_mknod(pid, parent, name, kind)
              \/ op = "mkdir" /\ ovl_mkdir(pid, parent, name)
              \/ op = "symlink" /\ ovl_symlink(pid, parent, name))
             => (reply'.err = "ENAMETOOLONG" <=> Len(name) > cfg.f_namemax - WHITEOUT_MAX_LEN)
        /\ (\E ino \in KnownFiles : ovl_link(pid, ino, parent, name))
             => (reply'.err = "ENAMETOOLONG" <=> Len(name) > cfg.f_namemax - WHITEOUT_MAX_LEN)
        /\ (\E from \in NameDirs, old \in Names, flags \in RenameFlags :
              ovl_rename(pid, from, old, parent, name, flags))
             => (reply'.err = "ENAMETOOLONG" <=> Len(name) > cfg.f_namemax - WHITEOUT_MAX_LEN)]_vars

\* a symbolic link with a name of exactly f_namemax - 4 bytes has been made
C16_Witness ==
  /\ cfg.statfs_ok
  /\ reply.op = "symlink" /\ reply.err = ""
  /\ Len(reply.name) = cfg.f_namemax - WHITEOUT_MAX_LEN


----------------------------------------------------------------------------
(* Reads at and across the end of a file.                                  *)

\* C17: a read at or beyond the end of the file replies successfully with no data, and
\* a read that straddles the end of the file replies with only the bytes up to the end.
C17_ReadStopsAtEof ==
  [][\A pid \in Callers, h \in handles, offset \in 0..MaxOffset, size \in 0..MaxRead :
        LET st_size == Len(EntAt(Cur, h.layer, FdPath(Cur, h)).data)
        IN (ovl_read(pid, h, offset, size) /\ checkAuthority(cfg, pid, h.ino) = "yes") =>
              /\ reply'.err = ""
              /\ Len(reply'.data) = Min(size, Max(0, st_size - offset))]_vars


----------------------------------------------------------------------------
(* Writes that start beyond the end of a file.                             *)

\* C18: after a write that starts beyond the end of an upper-layer file, every byte
\* between the old end and the write offset reads as zero, every byte before the old end
\* reads as it did before, and the whole blocks inside the gap are holes of zero bytes
\* in the stored file.
C18_GapReadsZero ==
  [][\A pid \in Callers, h \in handles, off \in 0..MaxOffset, buf \in WriteBufs, ub \in Overruns :
        LET node == inode_to_node(Cur, h.ino)
            n == nodes[node]
            old == EntAt(Cur, n.layer, n.path).data
            new == EntAt(Cur', n.layer, n.path).data
            before == readBlocks([file |-> old, cache |-> n.cache, dead |-> FALSE, bad |-> {}],
                                 0, Len(old)).data
            after == readBlocks([file |-> new, cache |-> nodes'[node].cache, dead |-> FALSE, bad |-> {}],
                                0, Len(new)).data
        IN (/\ ovl_write_buf(pid, h, off, buf, ub)
            /\ on_upper(Cur, node) /\ off > Len(old) /\ reply'.err = "") =>
              /\ Len(after) = off + Len(buf)
              /\ \A i \in 1..Len(old) : after[i] = before[i]
              /\ \A i \in (Len(old) + 1)..off : after[i] = 0
              /\ \A b \in 0..MaxOffset :
                    (Len(old) <= b * gBlockSize /\ (b + 1) * gBlockSize <= off) =>
                       SubSeq(new, b * gBlockSize + 1, (b + 1) * gBlockSize) = Zeros(gBlockSize)]_vars


----------------------------------------------------------------------------
(* create; unlink; create against a single create.                         *)

\* C19: for a name X in a directory D, create(D, X); unlink(D, X); create(D, X) leaves
\* the same view as the single create(D, X): the same result of lookup(D, X) (found or
\* not, errno), the same listing of readdir(D), the same type and content of X.
C19_CreateUnlinkCreate ==
  (reply.op = "create" /\ reply.err = "") =>
    LET view(s) ==
          Then(lookup_result(s, reply.parent, reply.name), LAMBDA l :
            [err |-> l.err, found |-> l.ino # 0,
             entry |-> IF l.node = Nil THEN NoEnt.k
                       ELSE EntAt(l.s, l.s.n[l.node].layer, l.s.n[l.node].path).k,
             data |-> IF l.node = Nil THEN <<>>
                      ELSE EntAt(l.s, l.s.n[l.node].layer, l.s.n[l.node].path).data,
             names |-> readdir_names(s, inode_to_node(s, reply.parent))])
    IN Then(do_rm(Cur, reply.parent, reply.name, FALSE), LAMBDA rm :
       Then(ovl_do_open(rm.s, reply.parent, reply.name, TRUE, FALSE), LAMBDA again :
         /\ rm.err = ""
         /\ again.err = "" /\ again.node # Nil
         /\ view(ino_lookups_inc(again.s, again.node)) = view(Cur)))


----------------------------------------------------------------------------
(* Attributes: getattr, and setattr with and without a mask.               *)

ovl_getattr(pid, ino) ==
  /\ Serving
  /\ ino \in KnownInos
  /\ \E verdict \in {checkAuthority(cfg, pid, ino)} :
        IF verdict # "yes" THEN Refuse("getattr", verdict, ino, NoName)
        ELSE \E node \in {inode_to_node(Cur, ino)} :
             \E st \in {IF node = Nil \/ nodes[node].whiteout THEN [err |-> "ENOENT", attr |-> <<>>]
                        ELSE rpl_stat(Cur, node, NoHandle)} :
             /\ reply' = [Replied("getattr", st.err, ino, NoName, ino, node, {})
                            EXCEPT !.data = st.attr]
             /\ Served
             /\ UNCHANGED <<cfg, disk, work, wdc, nextino, can_mknod, nodes, inodes,
                            dummy_lookups, kern, handles, ghost>>

AttrSteps == 4
\* the mounter: root, or an ordinary user
MounterIds == {0, 1000}
\* the masks a setattr request carries
ToSets == {{}, {"MODE"}}

\* A two-byte file a on the upper layer next to a one-byte file b on a lower layer, the
\* lower file with or without write permission for its owner.
AttrDisks ==
  {[U |-> WithData(LayerImage("U", Top("reg", "none"), {}, {}, {}),
                   encode_fd_to_fd(Plain(2), 0, <<>>)),
    L1 |-> [LayerImage("L1", Top("none", "reg"), {}, {}, {})
              EXCEPT !.ent[<<"b">>].data = Plain(1), !.ent[<<"b">>].meta = m],
    L2 |-> EmptyLayer] : m \in {0, S_IWUSR}}

InitAttr ==
  /\ \E id \in MounterIds : cfg = [Options(TRUE, TRUE, FALSE, AttrSteps) EXCEPT !.euid = id]
  /\ \E d \in AttrDisks : Mounted(d)
  /\ ghost = GhostInit

NextAttr ==
  \/ \E pid \in Callers, name \in Names : ovl_lookup(pid, FUSE_ROOT_ID, name)
  \/ \E pid \in Callers, ino \in KnownFiles, readonly \in BOOLEAN : ovl_open(pid, ino, readonly)
  \/ \E pid \in Callers, h \in handles : ovl_release(pid, h)
  \/ \E pid \in Callers, ino \in KnownInos : ovl_getattr(pid, ino)
  \/ \E pid \in Callers, ino \in KnownInos, fi \in {NoHandle} \cup handles, to_set \in ToSets :
        ovl_setattr(pid, ino, fi, to_set, StAttr(1, 0))

SpecAttr == InitAttr /\ [][NextAttr]_vars

\* C20: a setattr request with an empty to_set mask leaves the attributes getattr reports
\* (mode, size, inode number) as they were, for a node on the upper layer and for a node
\* that is on a lower layer when the request arrives.
C20_EmptySetattrKeepsAttributes ==
  [][\A pid \in Callers, ino \in KnownInos, fi \in {NoHandle} \cup handles :
        (ovl_setattr(pid, ino, fi, {}, StAttr(1, 0)) /\ reply'.err = "") =>
           rpl_stat(Cur', inode_to_node(Cur, ino), NoHandle)
             = rpl_stat(Cur, inode_to_node(Cur, ino), NoHandle)]_vars


----------------------------------------------------------------------------
(* Id mapping: find_mapping, as rpl_stat (direct) and get_uid, get_gid     *)
(* (inverse) use it. Ids are unsigned int: arithmetic is modulo IdMod.     *)
(* A mapping list is the linked list read_mappings builds; << >> is NULL.  *)

IdMod == 8
Ids == 0..(IdMod - 1)

RECURSIVE walk_mappings(_, _, _)
\* the for loop of find_mapping; overflow is what is returned when no mapping matches
walk_mappings(id, mapping, direct) ==
  IF mapping = << >> THEN [found |-> FALSE, id |-> 0]
  ELSE LET m == Head(mapping)
       IN IF direct /\ id >= m.host /\ id < (m.host + m.len) % IdMod
            THEN [found |-> TRUE, id |-> (m.to + (id - m.host)) % IdMod]
          ELSE IF ~ direct /\ id >= m.to /\ id < (m.to + m.len) % IdMod
            THEN [found |-> TRUE, id |-> (m.host + (id - m.to)) % IdMod]
          ELSE walk_mappings(id, Tail(mapping), direct)

\* A faulty mapping that squashes in both directions.
find_mapping_squashes_writes(id, data, direct, uid) ==
  IF uid /\ data.squash_to_uid # -1 THEN data.squash_to_uid
  ELSE IF ~ uid /\ data.squash_to_gid # -1 THEN data.squash_to_gid
  ELSE IF data.squash_to_root THEN 0
  ELSE id

find_mapping(id, data, direct, uid) ==
  LET mapping == IF uid THEN data.uid_mappings ELSE data.gid_mappings
  IN IF direct /\ uid /\ data.squash_to_uid # -1 THEN data.squash_to_uid
     ELSE IF direct /\ ~ uid /\ data.squash_to_gid # -1 THEN data.squash_to_gid
     ELSE IF direct /\ data.squash_to_root THEN 0
     ELSE IF mapping = << >> THEN id
     ELSE LET w == walk_mappings(id, mapping, direct)
          IN IF w.found THEN w.id
             ELSE IF uid THEN data.overflow_uid ELSE data.overflow_gid

get_uid(data, id) == find_mapping(id, data, FALSE, TRUE)
get_gid(data, id) == find_mapping(id, data, FALSE, FALSE)

\* The mappings a table is made of: ranges that end below the top of the id space.
MapSet ==
  {m \in [host : {0, 4}, to : {1, 5}, len : {0, 2}] :
     m.host + m.len < IdMod /\ m.to + m.len < IdMod}
MapLists == {<< >>} \cup {<<m>> : m \in MapSet} \cup {<<m, n>> : m, n \in MapSet}
GidLists == {<< >>, <<[host |-> 2, to |-> 0, len |-> 3]>>,
             <<[host |-> 0, to |-> 6, len |-> 1], [host |-> 0, to |-> 3, len |-> 4]>>}

IdOptions ==
  {[Options(TRUE, TRUE, FALSE, 0) EXCEPT
      !.squash_to_uid = su, !.squash_to_gid = sg, !.squash_to_root = sr,
      !.uid_mappings = um, !.gid_mappings = gm, !.overflow_uid = 6, !.overflow_gid = 7] :
     su \in {-1, 3}, sg \in {-1, 2}, sr \in BOOLEAN, um \in MapLists, gm \in GidLists}

InitIds ==
  /\ cfg \in IdOptions
  /\ Mounted(GateDisk)
  /\ ghost = GhostInit

\* reply.off is the id asked about, reply.ino the id answered
IdReplied(op, id, out) ==
  /\ reply' = [Replied(op, "", 0, NoName, out, Nil, {}) EXCEPT !.off = id]
  /\ UNCHANGED <<cfg, disk, work, wdc, nextino, can_mknod, nodes, inodes, dummy_lookups,
                 kern, handles, steps, ghost, thr>>

\* rpl_stat: st->st_uid and st->st_gid of the host's stat go through the table
StatUid(id) == IdReplied("st_uid", id, find_mapping(id, cfg, TRUE, TRUE))
StatGid(id) == IdReplied("st_gid", id, find_mapping(id, cfg, TRUE, FALSE))
\* the owner a create, mkdir or chown request names is written as get_uid, get_gid give it
WriteUid(id) == IdReplied("get_uid", id, get_uid(cfg, id))
WriteGid(id) == IdReplied("get_gid", id, get_gid(cfg, id))

NextIds ==
  \/ \E id \in Ids : StatUid(id)
  \/ \E id \in Ids : StatGid(id)
  \/ \E id \in Ids : WriteUid(id)
  \/ \E id \in Ids : WriteGid(id)

SpecIds == InitIds /\ [][NextIds]_vars

\* C21: the uid (gid) stat reports is the squash id if squash_to_uid (squash_to_gid) is
\* set; otherwise 0 under squash_to_root; otherwise the host id when there is no table;
\* otherwise to + (id - host) for a mapping whose host range holds the id; otherwise the
\* overflow id. An owner that is written goes through the table the other way round and
\* is never squashed.
C21_IdMapping ==
  LET id == reply.off
      isuid == reply.op \in {"st_uid", "get_uid"}
      table == IF isuid THEN cfg.uid_mappings ELSE cfg.gid_mappings
      squash == IF isuid THEN cfg.squash_to_uid ELSE cfg.squash_to_gid
      overflow == IF isuid THEN cfg.overflow_uid ELSE cfg.overflow_gid
      maps == {table[i] : i \in DOMAIN table}
      direct == {m \in maps : m.host <= id /\ id < m.host + m.len}
      inverse == {m \in maps : m.to <= id /\ id < m.to + m.len}
  IN /\ reply.op \in {"st_uid", "st_gid"} =>
          IF squash # -1 THEN reply.ino = squash
          ELSE IF cfg.squash_to_root THEN reply.ino = 0
          ELSE IF table = << >> THEN reply.ino = id
          ELSE IF direct # {} THEN \E m \in direct : reply.ino = m.to + (id - m.host)
          ELSE reply.ino = overflow
     /\ reply.op \in {"get_uid", "get_gid"} =>
          IF table = << >> THEN reply.ino = id
          ELSE IF inverse # {} THEN \E m \in inverse : reply.ino = m.host + (id - m.to)
          ELSE reply.ino = overflow

\* stat has reported a uid taken from the second mapping of a table
C21_Witness ==
  /\ reply.op = "st_uid" /\ cfg.squash_to_uid = -1 /\ ~ cfg.squash_to_root
  /\ Len(cfg.uid_mappings) = 2 /\ reply.ino # reply.off
  /\ reply.ino = cfg.uid_mappings[2].to + (reply.off - cfg.uid_mappings[2].host)
  /\ reply.ino # cfg.overflow_uid


----------------------------------------------------------------------------
(* The hide list: the mount is given a black list, a white list and a      *)
(* no-white list of paths; the kernel looks names up and lists directories. *)

\* budget of requests of the hide-list specification
HideSteps == 3

\* "/a/a", "/a/" and "/b"
HideAA == HideEntry(<<"a">>, "a", FALSE)
HideADir == HideEntry(<<"a">>, "", TRUE)
HideB == HideEntry(<<>>, "b", FALSE)

\* The directory a with the files a/a and a/b, and the file b, in the layers of ls.
HideDisk(ls) ==
  [l \in AllLayers |->
     IF l \in ls
       THEN LayerImage(l, [n \in Names |-> IF n = "a" THEN "dir" ELSE "reg"],
                       {<<"a", "a">>, <<"a", "b">>}, {}, {})
       ELSE EmptyLayer]

InitHide ==
  /\ \E bl \in {{HideAA}, {HideADir}, {HideAA, HideB}}, wl \in {{}, {HideAA}},
        nwl \in {{}, {HideAA}}, t \in BOOLEAN :
       cfg = [Options(TRUE, t, FALSE, HideSteps) EXCEPT
                !.mergelist = parse_mergelist(bl, wl, nwl)]
  /\ \E ls \in {{"L1"}, {"L2"}, {"L1", "L2"}} : Mounted(HideDisk(ls))
  /\ ghost = GhostInit

NextHide ==
  \/ \E pid \in Callers, parent \in KnownDirs, name \in Names : ovl_lookup(pid, parent, name)
  \/ \E pid \in Callers, ino \in KnownInos : ovl_opendir(pid, ino)
  \/ \E pid \in Callers, h \in handles : ovl_readdir(pid, h)
  \/ \E pid \in Callers, h \in handles : ovl_releasedir(pid, h)
  \/ \E pid \in Callers, ino \in DOMAIN kern, n \in 1..MaxLookups : ovl_forget(pid, ino, n)

SpecHide == InitHide /\ [][NextHide]_vars

\* The path p is on the effective hide list: it is an entry, or lies under a directory entry.
OnHideList(c, p) ==
  \E e \in c.mergelist :
    IF e.slash THEN Len(p) > Len(e.dir) /\ SubSeq(p, 1, Len(e.dir)) = e.dir
    ELSE p = e.dir \o <<e.base>>

\* The node nd surfaces a lower-layer entry that is on the hide list.
SurfacesHidden(nd) ==
  /\ nd \in DOMAIN nodes
  /\ nodes[nd].layer \in {"L1", "L2"}
  /\ ~ nodes[nd].whiteout
  /\ OnHideList(cfg, nodes[nd].path)

\* C22: a lower-layer entry whose path is on the effective hide list is never surfaced,
\* whichever lower layer holds it: no lookup resolves to it and no readdir of its parent
\* lists it, whether or not the parent's children have been loaded.
C22_HiddenNeverSurfaced ==
  /\ (reply.op = "lookup" /\ reply.err = "") => ~ SurfacesHidden(reply.node)
  /\ (reply.op = "readdir" /\ reply.err = "") =>
       \A nd \in DOMAIN nodes :
         (nodes[nd].parent = reply.node /\ nodes[nd].name \in reply.names) => ~ SurfacesHidden(nd)


----------------------------------------------------------------------------
(* Decoding: one regular file "a" on the upper layer, and a cipher that    *)
(* reports a wrong size for some of its blocks.                            *)

\* budget of requests of the decoding specification
DecodeSteps == 4
\* the longest file of the decoding specification
MaxDecode == 3

InitDecode ==
  /\ \E bad \in SUBSET (0..(MaxDecode \div gBlockSize)) :
       cfg = [Options(TRUE, TRUE, FALSE, DecodeSteps) EXCEPT !.decode_bad = bad]
  /\ \E n \in 0..MaxDecode :
       Mounted([U |-> WithData(LayerImage("U", Top("reg", "none"), {}, {}, {}),
                               encode_fd_to_fd(Plain(n), 0, <<>>)),
                L1 |-> EmptyLayer, L2 |-> EmptyLayer])
  /\ ghost = GhostInit

NextDecode ==
  \/ \E pid \in Callers, name \in Names : ovl_lookup(pid, FUSE_ROOT_ID, name)
  \/ \E pid \in Callers, ino \in KnownFiles, readonly \in BOOLEAN : ovl_open(pid, ino, readonly)
  \/ \E pid \in Callers, h \in handles : ovl_release(pid, h)
  \/ \E pid \in Callers, h \in handles, off \in 0..MaxOffset, size \in 0..MaxRead :
        ovl_read(pid, h, off, size)

SpecDecode == InitDecode /\ [][NextDecode]_vars

\* C23: a read of an upper-layer file during which the decoding of a block fails is
\* replied with EBADMSG, not with data.
C23_DecodeFailureRepliesBadMessage ==
  [][\A pid \in Callers, h \in handles, off \in 0..MaxOffset, size \in 0..MaxRead :
       (/\ ovl_read(pid, h, off, size)
        /\ checkAuthority(cfg, pid, h.ino) = "yes"
        /\ do_read(Cur, h.ino, h, off, size).res = "EBADMSG")
       => reply'.err = "EBADMSG"]_vars


----------------------------------------------------------------------------
(* The big lock.  ovl_read, ovl_write_buf and ovl_setattr are followed     *)
(* through the pieces the mutex cuts them into, on the threads of the      *)
(* session loop; every other handler holds the lock from entry to return.  *)

\* budget of requests of the lock specification
LockSteps == 4

\* The request a thread is inside of: l is the handler's local l, node its local node, fd
\* whether blockReq.fd of ovl_write_buf is an open descriptor.
Inside(op, pc, pid, ino, h, node, l) ==
  [op |-> op, pc |-> pc, pid |-> pid, ino |-> ino, h |-> h, node |-> node, l |-> l,
   fd |-> FALSE]
IsIdle(t) == thr.run[t].op = "idle"
\* enter_big_lock: nothing to take when locking is disabled (the mount is not threaded)
disable_locking == ~ cfg.threaded
\* the kernel has one request in flight at a time unless the mount is threaded
MayEnter(t) == IsIdle(t) /\ (cfg.threaded \/ (t = 1 /\ \A u \in Threads : IsIdle(u)))
AThreadIsFree == \E t \in Threads : MayEnter(t)
\* a handler that keeps the big lock from entry to return runs when the lock is free
BigLockFree == disable_locking \/ thr.lock = 0
\* the kernel forgets no inode that a request in flight names
InFlight(ino) == \E t \in Threads : ~ IsIdle(t) /\ thr.run[t].ino = ino

\* A read, write or setattr request reaches a thread.
thr_request(t, op, pid, ino, h) ==
  /\ Serving
  /\ MayEnter(t)
  /\ ino \in KnownFiles
  /\ IF op = "setattr" THEN h = NoHandle
     ELSE h \in OpenFiles /\ h.ino = ino /\ FdPaths(Cur, h) # {} /\ (op = "write" => h.rw)
  /\ thr' = [thr EXCEPT !.run[t] = Inside(op, "start", pid, ino, h, Nil, 0)]
  /\ steps' = steps + 1
  /\ UNCHANGED <<cfg, disk, work, wdc, nextino, can_mknod, nodes, inodes, dummy_lookups,
                 kern, handles, reply, ghost>>

Return(t, op, err, ino, data) ==
  reply' = [Replied(op, err, ino, NoName, ino, Nil, {}) EXCEPT !.data = data]

\* ovl_read and ovl_write_buf before they take the mutex: inode_to_node, the gate, and
\* the tests on node->whiteout, node->layer and node->last_layer.
thr_peek(t) ==
  /\ ~ IsIdle(t) /\ thr.run[t].pc = "start" /\ thr.run[t].op \in {"read", "write"}
  /\ LET r == thr.run[t]
         node == inode_to_node(Cur, r.ino)
         verdict == checkAuthority(cfg, r.pid, r.ino)
     IN IF (r.op = "write" /\ (node = Nil \/ nodes[node].whiteout)) \/ verdict # "yes"
          THEN /\ Return(t, r.op, IF verdict = "hang" THEN "HANG" ELSE "ENOENT", r.ino, <<>>)
               /\ thr' = [thr EXCEPT !.run[t] = Idle]
               /\ UNCHANGED <<disk, nodes>>
        ELSE IF on_upper(Cur, node)
          \* ovl_write_buf: blockReq.fd = openat (node->layer, node->path, O_RDWR)
          THEN /\ thr' = [thr EXCEPT !.run[t].pc = "lock", !.run[t].node = node,
                                     !.run[t].fd = /\ r.op = "write"
                                                   /\ EntAt(Cur, nodes[node].layer,
                                                            nodes[node].path).k = "reg"]
               /\ UNCHANGED <<disk, nodes, reply>>
        ELSE IF r.op = "read"
          THEN /\ Return(t, "read", "", r.ino, do_read(Cur, r.ino, r.h, 0, 1).data)
               /\ thr' = [thr EXCEPT !.run[t] = Idle]
               /\ UNCHANGED <<disk, nodes>>
        ELSE \E res \in {do_write_buf(Cur, r.ino, r.h, 0, <<1>>, "spared")} :
               /\ disk' = res.s.d /\ nodes' = res.s.n
               /\ thr' = [thr EXCEPT !.run[t].pc = "tail", !.run[t].node = node]
               /\ UNCHANGED reply
  /\ UNCHANGED <<cfg, work, wdc, nextino, can_mknod, inodes, dummy_lookups, kern, handles,
                 ghost, steps>>

\* pthread_mutex_lock (&lock) of ovl_read and ovl_write_buf, enter_big_lock of ovl_setattr:
\* the thread waits until the mutex is free.
thr_lock(t) ==
  /\ ~ IsIdle(t)
  /\ \/ thr.run[t].pc = "lock"
     \/ thr.run[t].pc = "start" /\ thr.run[t].op = "setattr"
  /\ IF thr.run[t].op = "setattr" /\ disable_locking
       THEN thr' = [thr EXCEPT !.run[t].pc = "body"]
       ELSE /\ thr.lock = 0
            /\ thr' = [thr EXCEPT !.lock = t, !.run[t].pc = "body",
                                  !.run[t].l = IF thr.run[t].op = "setattr" THEN 1 ELSE 0]
  /\ UNCHANGED <<cfg, disk, work, wdc, nextino, can_mknod, nodes, inodes, dummy_lookups,
                 kern, handles, reply, ghost, steps>>

\* cleanup_lockp on return: the mutex is given back when l is set
cleanup_lockp(t) == IF thr.run[t].l # 0 THEN 0 ELSE thr.lock

\* What the handler does under the mutex.  ovl_read: readBlocks, unlock, reply.
\* ovl_write_buf: rpl_stat, and a return when it fails; writeBlocks, unlock.  ovl_setattr:
\* inode_to_node and get_node_up, then l = release_big_lock ().
thr_body(t) ==
  /\ ~ IsIdle(t) /\ thr.run[t].pc = "body"
  /\ LET r == thr.run[t]
     IN CASE r.op = "read" ->
               \E res \in {do_read(Cur, r.ino, r.h, 0, 1)} :
                 /\ Commit(res.s)
                 /\ Return(t, "read", "", r.ino, res.data)
                 /\ thr' = [thr EXCEPT !.lock = 0, !.run[t] = Idle]
          [] r.op = "write" ->
               \E res \in {do_write_buf(Cur, r.ino, r.h, 0, <<1>>, "spared")} :
                 /\ Commit(res.s)
                 /\ IF res.err # ""
                      \* the return after rpl_stat: neither unlock nor close (blockReq.fd)
                      THEN /\ reply' = [Replied("write", res.err, r.ino, NoName, r.ino, Nil, {})
                                          EXCEPT !.fds = IF r.fd THEN 1 ELSE 0]
                           /\ thr' = [thr EXCEPT !.run[t] = Idle]
                      ELSE /\ UNCHANGED reply
                           /\ thr' = [thr EXCEPT !.lock = 0, !.run[t].pc = "tail"]
          [] OTHER ->
               LET node == inode_to_node(Cur, r.ino)
               IN IF node = Nil \/ nodes[node].whiteout
                    THEN /\ Return(t, "setattr", "ENOENT", r.ino, <<>>)
                         /\ thr' = [thr EXCEPT !.lock = cleanup_lockp(t), !.run[t] = Idle]
                         /\ UNCHANGED <<disk, work, wdc, nextino, can_mknod, nodes, inodes,
                                        dummy_lookups>>
                  ELSE \E u \in {get_node_up(Cur, node)} :
                         /\ Commit(u.s)
                         /\ IF u.err # ""
                              THEN /\ Return(t, "setattr", u.err, r.ino, <<>>)
                                   /\ thr' = [thr EXCEPT !.lock = cleanup_lockp(t), !.run[t] = Idle]
                              ELSE /\ UNCHANGED reply
                                   /\ thr' = [thr EXCEPT !.lock = cleanup_lockp(t),
                                                         !.run[t].l = 0, !.run[t].pc = "tail",
                                                         !.run[t].node = node]
  /\ UNCHANGED <<cfg, kern, handles, ghost, steps>>

\* What the handler does after it gave the mutex back.  ovl_write_buf: lookup_inode and
\* inode->mode, the reply.  ovl_setattr: chmod, node->ino->mode = mode, do_getattr (node),
\* the reply; cleanup_lockp finds l = 0.
thr_tail(t) ==
  /\ ~ IsIdle(t) /\ thr.run[t].pc = "tail"
  /\ LET r == thr.run[t]
     IN IF r.op = "write"
          THEN /\ Return(t, "write", "", r.ino, <<1>>)
               /\ UNCHANGED <<disk, work, wdc, nextino, can_mknod, nodes, inodes, dummy_lookups>>
          ELSE \E res \in {do_setattr(Cur, r.ino, r.h, {"MODE"}, StAttr(1, 0))} :
               /\ Commit(res.s)
               /\ \E st \in {IF res.err # "" THEN [err |-> res.err, attr |-> <<>>]
                              ELSE rpl_stat(res.s, r.node, r.h)} :
                     Return(t, "setattr", st.err, r.ino, st.attr)
  /\ thr' = [thr EXCEPT !.lock = cleanup_lockp(t), !.run[t] = Idle]
  /\ UNCHANGED <<cfg, kern, handles, ghost, steps>>

\* Somebody removes the file a from the upper directory without going through the mount.
outside_remove ==
  /\ disk.U.ent[<<"a">>].k = "reg"
  /\ \A t \in Threads : thr.run[t].op # "read"
  /\ disk' = [disk EXCEPT !.U.ent[<<"a">>] = NoEnt]
  /\ UNCHANGED <<cfg, work, wdc, nextino, can_mknod, nodes, inodes, dummy_lookups, kern,
                 handles, reply, ghost, steps, thr>>

InitLock ==
  /\ \E th \in BOOLEAN : cfg = [Options(TRUE, TRUE, FALSE, LockSteps) EXCEPT !.threaded = th]
  /\ Mounted([U |-> WithData(LayerImage("U", Top("reg", "none"), {}, {}, {}),
                             encode_fd_to_fd(Plain(1), 0, <<>>)),
              L1 |-> LayerImage("L1", Top("none", "reg"), {}, {}, {}),
              L2 |-> EmptyLayer])
  /\ ghost = GhostInit

NextLock ==
  \/ \E pid \in Callers, name \in Names :
        BigLockFree /\ AThreadIsFree /\ ovl_lookup(pid, FUSE_ROOT_ID, name)
  \/ \E pid \in Callers, ino \in KnownFiles :
        BigLockFree /\ AThreadIsFree /\ ovl_open(pid, ino, FALSE)
  \/ \E pid \in Callers, ino \in DOMAIN kern :
        BigLockFree /\ AThreadIsFree /\ ~ InFlight(ino) /\ ovl_forget(pid, ino, kern[ino])
  \/ \E t \in Threads, op \in {"read", "write", "setattr"}, pid \in Callers,
        ino \in KnownFiles, h \in handles \cup {NoHandle} : thr_request(t, op, pid, ino, h)
  \/ \E t \in Threads : thr_peek(t)
  \/ \E t \in Threads : thr_lock(t)
  \/ \E t \in Threads : thr_body(t)
  \/ \E t \in Threads : thr_tail(t)
  \/ outside_remove

SpecLock == InitLock /\ [][NextLock]_vars

\* C24: a handler that took the big lock has given it back when it returns, whatever
\* the reply: no thread that is inside no handler holds the mutex.
C24_LockReleasedOnReturn ==
  \A t \in Threads : IsIdle(t) => thr.lock # t


\* C25: on a threaded mount every piece of a handler that reads or writes the node graph
\* or the inode table (inode_to_node, the fields of a node, the mode of an inode record)
\* is run by the thread that holds the big lock.
C25_GraphAccessUnderLock ==
  [][cfg.threaded =>
       \A t \in Threads : (thr_peek(t) \/ thr_body(t) \/ thr_tail(t)) => thr.lock = t]_vars


----------------------------------------------------------------------------
(* The namespace specification with every kind of rename.                  *)

AllRenameFlags == RenameFlags \cup {{"EXCHANGE"}}

NextRen ==
  \/ \E pid \in Callers, parent \in NameDirs, name \in Names : ovl_lookup(pid, parent, name)
  \/ \E pid \in Callers, ino \in DOMAIN kern : ovl_forget(pid, ino, kern[ino])
  \/ \E pid \in Callers, parent \in NameDirs, name \in Names : ovl_create(pid, parent, name)
  \/ \E pid \in Callers, h \in handles : ovl_release(pid, h)
  \/ \E pid \in Callers, parent \in NameDirs, name \in Names : ovl_mkdir(pid, parent, name)
  \* the kernel unlinks no directory
  \/ \E pid \in Callers, parent \in NameDirs, name \in Names :
        /\ KernelHolds(parent, name) /\ ~ nodes[HeldAt(parent, name).node].dirp
        /\ ovl_unlink(pid, parent, name)
  \/ \E pid \in Callers, parent \in NameDirs, name \in Names,
        newparent \in NameDirs, newname \in Names, flags \in AllRenameFlags :
        /\ ExchangeResolved(newparent, newname, flags)
        /\ ovl_rename(pid, parent, name, newparent, newname, flags)

\* an upper directory with a file in it next to an upper file: two names of one
\* directory the exchange may swap without crossing layers
RenDisks ==
  NSDisks \cup
  {[U |-> LayerImage("U", Top("dir", "reg"), {<<"a", "a">>}, {}, {}),
    L1 |-> EmptyLayer,
    L2 |-> EmptyLayer]}

InitRen ==
  /\ cfg \in NSOptions
  /\ \E d \in RenDisks : Mounted(d)
  /\ ghost = GhostInit

SpecRen == InitRen /\ [][NextRen]_vars

\* a node the file system shows: neither a whiteout nor moved to the workdir
Visible(id) == ~ nodes[id].whiteout /\ ~ nodes[id].hidden

\* C26: every visible node with a parent has the path of its parent followed by its own
\* name, and is the child its parent keeps under that name.
C26_PathsFollowParents ==
  \A id \in DOMAIN nodes :
    (Visible(id) /\ nodes[id].parent # Nil) =>
      /\ nodes[id].parent \in DOMAIN nodes
      /\ nodes[id].path = nodes[nodes[id].parent].path \o <<nodes[id].name>>
      /\ id \in nodes[nodes[id].parent].children
      /\ child_lookup(Cur, nodes[id].parent, nodes[id].name) = id


\* an exchange has moved a directory whose child is cached
C26_Witness ==
  /\ reply.op = "rename" /\ reply.err = ""
  /\ "EXCHANGE" \in ghost.moved.flags
  /\ ghost.moved.node \in DOMAIN nodes
  /\ nodes[ghost.moved.node].dirp
  /\ nodes[ghost.moved.node].path = ghost.moved.to
  /\ \E id \in nodes[ghost.moved.node].children : Visible(id)


----------------------------------------------------------------------------
(* Lookup counts against what the kernel holds. *)

\* C27: each inode record's lookups equals the lookups handed to the kernel for it minus
\* those the kernel has forgotten, every inode the kernel holds has its record, and no
\* record without lookups and without nodes stays in the table. An open directory table
\* pins its entries with a lookup of its own (reload_tbl) until releasedir, so the count
\* is compared in the states where no directory handle is open. The root record starts
\* at 2 and is never forgotten.
C27_LookupsMatchKernel ==
  (\A h \in handles : h.kind # "dir") =>
    /\ \A k \in DOMAIN inodes :
         /\ k # nodes[RootId].ino => inodes[k].lookups = KernRef(kern, k)
         /\ ~ (inodes[k].lookups = 0 /\ inodes[k].list = <<>>)
    /\ \A k \in DOMAIN kern : k \in DOMAIN inodes


----------------------------------------------------------------------------
(* Unlinked nodes the kernel still holds: their place in the working       *)
(* directory, from hide_node to the last forget.                           *)

\* budget of requests of the pin specification
PinSteps == 7

InitPin ==
  /\ cfg = Options(TRUE, FALSE, FALSE, PinSteps)
  /\ Mounted([U |-> LayerImage("U", Top("reg", "none"), {}, {}, {}),
              L1 |-> LayerImage("L1", Top("none", "reg"), {}, {}, {}),
              L2 |-> EmptyLayer])
  /\ ghost = GhostInit

NextPin ==
  \/ \E pid \in Callers, name \in Names : ovl_lookup(pid, FUSE_ROOT_ID, name)
  \/ \E pid \in Callers : ovl_opendir(pid, FUSE_ROOT_ID)
  \/ \E pid \in Callers, h \in handles : ovl_readdir(pid, h)
  \/ \E pid \in Callers, h \in handles : ovl_releasedir(pid, h)
  \/ \E pid \in Callers, ino \in DOMAIN kern : ovl_forget(pid, ino, kern[ino])
  \/ \E pid \in Callers, name \in Names : ovl_unlink(pid, FUSE_ROOT_ID, name)

SpecPin == InitPin /\ [][NextPin]_vars

\* C28: a node unlinked while the kernel holds lookups on its inode keeps an entry of its
\* own in the working directory, and once the kernel has forgotten every lookup of the
\* inode no entry for the node remains there: each working-directory entry is the
\* staging entry of one hidden node whose inode the kernel still holds, and each hidden
\* node has its entry. An open directory table pins its entries until releasedir, so the
\* entries are counted in the states where no directory handle is open.
C28_HiddenUntilForgotten ==
  (\A h \in handles : h.kind # "dir") =>
    /\ \A key \in DOMAIN work :
         /\ \E id \in DOMAIN nodes :
              nodes[id].hidden /\ nodes[id].hkey = key /\ nodes[id].ino \in DOMAIN kern
         /\ Cardinality({id \in DOMAIN nodes : nodes[id].hidden /\ nodes[id].hkey = key}) = 1
    /\ \A id \in DOMAIN nodes : nodes[id].hidden => nodes[id].hkey \in DOMAIN work


----------------------------------------------------------------------------
(* Copy-up of a regular file when a step of it fails.                      *)

\* budget of requests of the copy-up specification
CopyupSteps == 3

InitCopyup ==
  /\ cfg \in {[Options(TRUE, TRUE, FALSE, CopyupSteps) EXCEPT !.copyup_fault = f, !.ndebug = nd] :
                f \in CopyupFaults \cup {"none"}, nd \in BOOLEAN}
  /\ \E n \in 0..MaxLower :
       /\ Mounted([U |-> EmptyLayer,
                   L1 |-> WithData(LayerImage("L1", Top("reg", "none"), {}, {}, {}), Plain(n)),
                   L2 |-> EmptyLayer])
       /\ ghost = [GhostInit EXCEPT !.want = Plain(n)]

NextCopyup ==
  \/ \E pid \in Callers, name \in Names : ovl_lookup(pid, FUSE_ROOT_ID, name)
  \/ \E pid \in Callers, ino \in KnownFiles, readonly \in BOOLEAN : ovl_open(pid, ino, readonly)
  \/ \E pid \in Callers, h \in handles : ovl_release(pid, h)
  \/ \E pid \in Callers, ino \in KnownFiles : ovl_setattr(pid, ino, NoHandle, {"MODE"}, StAttr(1, 0))
  \/ \E pid \in Callers, ino \in DOMAIN kern : ovl_forget(pid, ino, kern[ino])

SpecCopyup == InitCopyup /\ [][NextCopyup]_vars

\* C29: for a regular file of a lower layer that the kernel has looked up: when a step of
\* copying it up fails, copyup returns an error, the working directory holds what it
\* held before and node.layer is unchanged; when copyup returns success the upper layer
\* holds the whole file, encoded, and node.layer is the upper layer.
C29_CopyupAllOrNothing ==
  \A node \in DOMAIN nodes :
    LET n == nodes[node]
        e == IF n.layer \in {"L1", "L2"} THEN EntAt(Cur, n.layer, n.path) ELSE NoEnt
        fails == /\ cfg.copyup_fault # "none"
                 /\ cfg.copyup_fault = "write" => e.data # <<>>
                 /\ cfg.copyup_fault = "whiteout" => n.parent # Nil
        r == copyup(Cur, node)
    IN (~ n.whiteout /\ ~ n.hidden /\ e.k = "reg" /\ n.ino \in DOMAIN kern) =>
         /\ fails => /\ r.err \notin {"", "DEAD"}
                     /\ r.s.w = work
                     /\ r.s.n[node].layer = n.layer
         /\ r.err = "" => /\ r.s.n[node].layer = Upper
                          /\ EntAt(r.s, Upper, n.path).k = "reg"
                          /\ EntAt(r.s, Upper, n.path).data = encode_fd_to_fd(e.data, 0, <<>>)


----------------------------------------------------------------------------
(* Requests that name a whiteout. The handlers look every name up          *)
(* themselves (ovl_rename_exchange answers ENOENT for a new name it does   *)
(* not find), so the requests of this specification arrive with any new    *)
(* name, resolved by the sender or not.                                    *)

NextXchg ==
  \/ \E pid \in Callers, parent \in NameDirs, name \in Names : ovl_lookup(pid, parent, name)
  \/ \E pid \in Callers, ino \in DOMAIN kern : ovl_forget(pid, ino, kern[ino])
  \/ \E pid \in Callers, parent \in NameDirs, name \in Names : ovl_create(pid, parent, name)
  \/ \E pid \in Callers, h \in handles : ovl_release(pid, h)
  \/ \E pid \in Callers, parent \in NameDirs, name \in Names : ovl_mkdir(pid, parent, name)
  \/ \E pid \in Callers, parent \in NameDirs, name \in Names :
        /\ KernelHolds(parent, name) /\ ~ nodes[HeldAt(parent, name).node].dirp
        /\ ovl_unlink(pid, parent, name)
  \/ \E pid \in Callers, parent \in NameDirs, name \in Names,
        newparent \in NameDirs, newname \in Names, flags \in AllRenameFlags :
        ovl_rename(pid, parent, name, newparent, newname, flags)

SpecXchg == InitRen /\ [][NextXchg]_vars

\* C30: no request makes copyup run on a whiteout node: a handler that finds a whiteout
\* under a name treats the name as absent before it calls get_node_up, at both ends of an
\* exchange too. A whiteout node has no layer (make_whiteout_node leaves node->layer
\* NULL), so copyup on it ends the process at node->layer->ds: no reply is "DEAD".
C30_NoCopyupOfWhiteout == reply.err # "DEAD"


----------------------------------------------------------------------------
(* The children container of a node, for each type of file a layer holds.  *)

KindSteps == 4
FileKinds == {"reg", "dir", "lnk", "chr", "blk", "fifo", "sock"}

\* A lower layer with a directory a that holds an entry a of kind k beside a regular file b.
KindImage(k) ==
  [ent |-> [p \in Paths |-> IF p = <<"a">> THEN Ent("dir", InitIno("L1", p))
                            ELSE IF p = <<"a", "a">> THEN Ent(k, InitIno("L1", p))
                            ELSE IF p = <<"a", "b">> THEN Ent("reg", InitIno("L1", p))
                            ELSE NoEnt],
   whf |-> {}, opq |-> {}]

InitKinds ==
  /\ cfg \in {[Options(TRUE, t, FALSE, KindSteps) EXCEPT !.dt_unknown = u] :
                t \in BOOLEAN, u \in BOOLEAN}
  /\ \E k \in FileKinds : Mounted([U |-> EmptyLayer, L1 |-> KindImage(k), L2 |-> EmptyLayer])
  /\ ghost = GhostInit

NextKinds ==
  \/ \E pid \in Callers, parent \in NameDirs, name \in Names : ovl_lookup(pid, parent, name)
  \/ \E pid \in Callers, ino \in KnownDirs : ovl_opendir(pid, ino)
  \/ \E pid \in Callers, h \in handles : ovl_readdir(pid, h)
  \/ \E pid \in Callers, h \in handles : ovl_releasedir(pid, h)
  \/ \E pid \in Callers, ino \in DOMAIN kern : ovl_forget(pid, ino, kern[ino])

SpecKinds == InitKinds /\ [][NextKinds]_vars

\* C31: a node has a children container exactly when the entry it stands for is a
\* directory, whatever the type of the entry and whether the node was made by a lookup or
\* by the load of its directory.
C31_ChildrenIffDirectory ==
  \A id \in DOMAIN nodes :
    (~ nodes[id].whiteout /\ nodes[id].layer # NoLayer) =>
      (nodes[id].dirp <=> EntAt(Cur, nodes[id].layer, nodes[id].path).k = "dir")


----------------------------------------------------------------------------
(* Changes of a directory that is being read: what the kernel is told.     *)

InvalSteps == 4

InitInval ==
  /\ cfg \in {Options(TRUE, t, FALSE, InvalSteps) : t \in BOOLEAN}
  /\ Mounted([U |-> LayerImage("U", Top("reg", "none"), {}, {}, {}),
              L1 |-> LayerImage("L1", Top("none", "dir"), {}, {}, {}),
              L2 |-> EmptyLayer])
  /\ ghost = GhostInit

NextInval ==
  \/ \E pid \in Callers, name \in Names : ovl_lookup(pid, FUSE_ROOT_ID, name)
  \/ \E pid \in Callers, ino \in KnownDirs : ovl_opendir(pid, ino)
  \/ \E pid \in Callers, h \in handles : ovl_releasedir(pid, h)
  \/ \E pid \in Callers, parent \in NameDirs, name \in Names : ovl_create(pid, parent, name)
  \/ \E pid \in Callers, parent \in NameDirs, name \in Names, kind \in MknodKinds :
        ovl_mknod(pid, parent, name, kind)
  \/ \E pid \in Callers, parent \in NameDirs, name \in Names : ovl_mkdir(pid, parent, name)
  \/ \E pid \in Callers, parent \in NameDirs, name \in Names : ovl_symlink(pid, parent, name)
  \/ \E pid \in Callers, ino \in KnownFiles, newparent \in NameDirs, newname \in Names :
        ovl_link(pid, ino, newparent, newname)
  \/ \E pid \in Callers, parent \in NameDirs, name \in Names : ovl_unlink(pid, parent, name)
  \/ \E pid \in Callers, parent \in NameDirs, name \in Names : ovl_rmdir(pid, parent, name)
  \/ \E pid \in Callers, parent \in NameDirs, name \in Names,
        newparent \in NameDirs, newname \in Names :
        ovl_rename(pid, parent, name, newparent, newname, {})

SpecInval == InitInval /\ [][NextInval]_vars

\* the directories of dirs that are being read
BeingRead(dirs) == {d \in dirs : nodes[inode_to_node(Cur, d)].in_readdir > 0}

\* C32: a request that succeeds in changing the entries of a directory whose node has
\* in_readdir > 0 tells the kernel to drop its cache of that directory: create, mknod,
\* mkdir, symlink, link, unlink and rmdir for the parent, rename for both parents.
C32_InvalidatesDirBeingRead ==
  [][ \A pid \in Callers, parent \in NameDirs, name \in Names :
        /\ (/\ \/ ovl_create(pid, parent, name)
               \/ \E kind \in MknodKinds : ovl_mknod(pid, parent, name, kind)
               \/ ovl_mkdir(pid, parent, name)
               \/ ovl_symlink(pid, parent, name)
               \/ \E ino \in KnownFiles : ovl_link(pid, ino, parent, name)
               \/ ovl_unlink(pid, parent, name)
               \/ ovl_rmdir(pid, parent, name)
            /\ reply'.err = "")
             => BeingRead({parent}) \subseteq reply'.inval
        /\ \A newparent \in NameDirs, newname \in Names :
             (ovl_rename(pid, parent, name, newparent, newname, {}) /\ reply'.err = "")
               => BeingRead({parent, newparent}) \subseteq reply'.inval ]_vars


\* C33: a handler closes every descriptor it opened before it returns, whatever the reply,
\* the descriptor handed to the kernel as the file handle apart: no request leaves the
\* process with more descriptors than it had.
C33_DescriptorsClosedOnReturn == reply.fds = 0


----------------------------------------------------------------------------
(* Changes of size: one regular file a on the upper layer is truncated and *)
(* extended with setattr, written and read.                                *)

TruncSteps == 5
MaxResize == 3

InitTrunc ==
  /\ cfg = Options(TRUE, TRUE, FALSE, TruncSteps)
  /\ \E n \in 0..MaxResize :
       /\ Mounted([U |-> WithData(LayerImage("U", Top("reg", "none"), {}, {}, {}),
                                  encode_fd_to_fd(Plain(n), 0, <<>>)),
                   L1 |-> EmptyLayer, L2 |-> EmptyLayer])
       /\ ghost = [GhostInit EXCEPT !.want = Plain(n)]

NextTrunc ==
  \/ \E pid \in Callers : ovl_lookup(pid, FUSE_ROOT_ID, "a")
  \/ \E pid \in Callers, ino \in KnownFiles : ovl_open(pid, ino, FALSE)
  \/ \E pid \in Callers, ino \in KnownFiles, fi \in {NoHandle} \cup handles, n \in 0..MaxResize :
        ovl_setattr(pid, ino, fi, {"SIZE"}, StAttr(0, n))
  \/ \E pid \in Callers, h \in handles, off \in 0..MaxResize, buf \in {<<1>>, <<2, 2>>} :
        ovl_write_buf(pid, h, off, buf, "spared")
  \/ \E pid \in Callers, h \in handles, size \in 1..(MaxResize + 1) :
        ovl_read(pid, h, 0, size)

SpecTrunc == InitTrunc /\ [][NextTrunc]_vars

\* C34: once setattr has set the size of an upper regular file to n, a read returns below n
\* the bytes the file had before (its first min(s, n) bytes, then zeros), as changed by
\* the writes since; no byte that lay beyond n before the change of size comes back.
C34_ResizeKeepsPrefixAndZeros ==
  (reply.op = "read" /\ reply.err = "" /\ ghost.resized) =>
     \A i \in 1..Len(reply.data) :
        reply.off + i <= Len(ghost.want) => reply.data[i] = ghost.want[reply.off + i]


\* C35: whenever the block cache of the node that serves an inode's reads holds bytes,
\* they are the plaintext of the block of the backing file at cache.offset, as far as the
\* cache reaches.
C35_CacheMatchesFile ==
  \A ino \in DOMAIN inodes :
    LET n == nodes[inode_to_node(Cur, ino)]
    IN (n.cache.data # <<>> /\ ~ n.whiteout /\ n.layer # NoLayer
          /\ EntAt(Cur, n.layer, n.path).k = "reg") =>
         n.cache.data = Take(readOneBlock(EntAt(Cur, n.layer, n.path).data, n.cache.offset,
                                          gBlockSize),
                             Len(n.cache.data))


\* C36: a link that succeeds registers the new node for an inode that is in the table
\* already: the node is appended to the record's list of nodes and the record's mode,
\* which access and readdir go by, is what it was before the link.
C36_LinkKeepsInodeMode ==
  [][ \A pid \in Callers, ino \in KnownFiles, newparent \in NameDirs, newname \in Names :
        (ovl_link(pid, ino, newparent, newname) /\ reply'.err = "") =>
           /\ ino \in DOMAIN inodes'
           /\ inodes'[ino].mode = inodes[ino].mode
           /\ inodes'[ino].list = inodes[ino].list \o <<reply'.node>> ]_vars


\* C37: a handle opened read-only while the node was on a lower layer returns, after the
\* node has been copied up (and while nothing has been written since), the bytes it
\* returned before: those of the lower file.
C37_OldHandleReadsSameBytes ==
  [][ \A pid \in Callers, h \in handles, off \in 0..MaxOffset, size \in 0..MaxRead :
        (/\ ovl_read(pid, h, off, size) /\ reply'.err = ""
         /\ ~ h.rw /\ h.layer # Upper
         /\ nodes[inode_to_node(Cur, h.ino)].layer = Upper
         /\ ghost.want = EntAt(Cur, h.layer, FdPath(Cur, h)).data) =>
           \A i \in 1..Len(pread(ghost.want, size, off)) :
              reply'.data[i] = pread(ghost.want, size, off)[i] ]_vars


----------------------------------------------------------------------------
(* A file that is unlinked while it is open: one regular file a on the     *)
(* upper layer is opened, unlinked, written and read through the handle.   *)

UnlinkedSteps == 5

InitUnlinked ==
  /\ cfg = Options(TRUE, TRUE, FALSE, UnlinkedSteps)
  /\ \E n \in 0..MaxUpper :
       /\ Mounted([U |-> WithData(LayerImage("U", Top("reg", "none"), {}, {}, {}),
                                  encode_fd_to_fd(Plain(n), 0, <<>>)),
                   L1 |-> EmptyLayer, L2 |-> EmptyLayer])
       /\ ghost = [GhostInit EXCEPT !.want = Plain(n)]

NextUnlinked ==
  \/ \E pid \in Callers : ovl_lookup(pid, FUSE_ROOT_ID, "a")
  \/ \E pid \in Callers, ino \in KnownInos \ {FUSE_ROOT_ID}, readonly \in BOOLEAN :
        ovl_open(pid, ino, readonly)
  \/ \E pid \in Callers : ovl_unlink(pid, FUSE_ROOT_ID, "a")
  \/ \E pid \in Callers, h \in handles, off \in 0..MaxUpper, buf \in {<<1>>, <<2, 2>>} :
        ovl_write_buf(pid, h, off, buf, "spared")
  \/ \E pid \in Callers, h \in handles, size \in 1..MaxRead : ovl_read(pid, h, 0, size)
  \/ \E pid \in Callers, h \in handles : ovl_release(pid, h)

SpecUnlinked == InitUnlinked /\ [][NextUnlinked]_vars

\* C38: while a handle on an upper-layer file that has been unlinked stays open, writes
\* through it succeed and reads through it return what has been written.
C38_UnlinkedFileStaysUsable ==
  (reply.op \in {"read", "write"} /\ reply.node \in DOMAIN nodes /\ nodes[reply.node].hidden) =>
     /\ reply.err = ""
     /\ reply.op = "read" =>
          \A i \in 1..Len(reply.data) :
             reply.off + i <= Len(ghost.want) => reply.data[i] = ghost.want[reply.off + i]


\* C39: what a directory handle takes it gives back with releasedir.  Once no directory
\* handle is open, whatever readdir calls were made in between, no node keeps a
\* node_lookups reference, the lookups of each inode record are those the kernel holds
\* (the values before opendir, for a kernel that looked nothing up since), and no
\* directory's in_readdir is above zero; while handles are open, in_readdir is zero for
\* every directory without one.
C39_DirHandleRefsDropped ==
  /\ \A id \in DOMAIN nodes :
       (\A h \in handles : h.kind = "dir" => h.parent # id) => nodes[id].in_readdir = 0
  /\ (\A h \in handles : h.kind # "dir") =>
       /\ \A id \in DOMAIN nodes : nodes[id].node_lookups = 0
       /\ \A k \in DOMAIN inodes :
            k # nodes[RootId].ino => inodes[k].lookups = KernRef(kern, k)


----------------------------------------------------------------------------
(* Names with the ".wh." prefix: over a lower layer with a file a and a    *)
(* directory b, requests ask for plain names and for names with the prefix. *)

WhSteps == 3

AnyNames == Names \cup WhNames
\* the directories a request is made in: the root and those with a plain name
PlainDirs == {k \in NameDirs : nodes[inode_to_node(Cur, k)].path \in {RootPath} \cup Paths}

InitWh ==
  /\ cfg \in {Options(TRUE, t, FALSE, WhSteps) : t \in BOOLEAN}
  /\ Mounted([U |-> EmptyLayer,
              L1 |-> LayerImage("L1", Top("reg", "dir"), {}, {}, {}),
              L2 |-> EmptyLayer])
  /\ ghost = GhostInit

NextWh ==
  \/ \E pid \in Callers, name \in AnyNames : ovl_lookup(pid, FUSE_ROOT_ID, name)
  \/ \E pid \in Callers, parent \in PlainDirs, name \in AnyNames : ovl_create(pid, parent, name)
  \/ \E pid \in Callers, parent \in PlainDirs, name \in AnyNames, kind \in MknodKinds :
        ovl_mknod(pid, parent, name, kind)
  \/ \E pid \in Callers, parent \in PlainDirs, name \in AnyNames : ovl_mkdir(pid, parent, name)
  \/ \E pid \in Callers, parent \in PlainDirs, name \in AnyNames : ovl_symlink(pid, parent, name)
  \/ \E pid \in Callers, ino \in KnownFiles, newparent \in PlainDirs, newname \in AnyNames :
        ovl_link(pid, ino, newparent, newname)
  \/ \E pid \in Callers, parent \in PlainDirs, name \in AnyNames,
        newparent \in PlainDirs, newname \in AnyNames :
        ovl_rename(pid, parent, name, newparent, newname, {})

SpecWh == InitWh /\ [][NextWh]_vars

\* the request made the file ".wh.X" that name spells in the upper directory of parent
WhMade(parent, name) ==
  HiddenBy(PathOf(parent, name)) \in disk'[Upper].whf \ disk[Upper].whf

\* C40: no request creates an upper-layer entry whose name begins with ".wh.": create,
\* mknod, mkdir, symlink, link and rename to such a name all fail and leave no such file.
C40_WhNameNeverCreated ==
  [][ \A pid \in Callers, parent \in PlainDirs, name \in WhNames :
        (\/ ovl_create(pid, parent, name)
         \/ \E kind \in MknodKinds : ovl_mknod(pid, parent, name, kind)
         \/ ovl_mkdir(pid, parent, name)
         \/ ovl_symlink(pid, parent, name)
         \/ \E ino \in KnownFiles : ovl_link(pid, ino, parent, name)
         \/ \E from \in PlainDirs, old \in Names : ovl_rename(pid, from, old, parent, name, {}))
          => (reply'.err # "" /\ ~ WhMade(parent, name)) ]_vars

====
